---- MODULE Spec2Model ----
(***************************************************************************)
(* Model of the check-in store (utils/checkinStorage) and of the reminder  *)
(* scheduler (utils/reminderStorage) of the daily check-in application,    *)
(* together with the screen handlers that call them.                       *)
(*                                                                         *)
(* Strings that the code formats and parses (the dateKey) are sequences of *)
(* character codes.  A Date is a number of clock ticks since local         *)
(* midnight of January 1st of EpochYear; TicksPerDay ticks make one        *)
(* calendar day.                                                           *)
(***************************************************************************)
EXTENDS Integers, Sequences, FiniteSets, Bags, TLC

VARIABLES
    storage,      \* AsyncStorage: key -> stored value
    now,          \* the device clock, in ticks
    scheduled,    \* the platform's scheduled notification requests
    permission,   \* the platform's notification permission
    nextId,       \* the next identifier the platform hands out
    settings,     \* SettingsScreen state: settings
    statusLabel,  \* SettingsScreen state: the transient status text
    deleteState,  \* SettingsScreen state: deleteState
    savedCount,   \* HomeScreen state: savedCount
    saveState,    \* HomeScreen state: saveState
    lastOp,       \* the operation that ran last, its arguments and result
    prevOp,       \* a summary of the operation before it
    rem,          \* the reminder operation that ran last, and what it found
    tasks         \* the reminder flows that are suspended at an await

storeVars == <<storage, now>>
platformVars == <<scheduled, permission, nextId>>
screenVars == <<settings, statusLabel, deleteState, savedCount, saveState>>
flowVars == <<rem, tasks>>
vars == <<storage, now, scheduled, permission, nextId, settings, statusLabel,
          deleteState, savedCount, saveState, lastOp, prevOp, rem, tasks>>

----------------------------------------------------------------------------
(* Bounds of the model *)

EpochYear == 2024
TicksPerDay == 2
StartDay == 60
MaxTicks == 2
MaxDays == 2
RawLen == 2
MaxIds == 2
Scale == 4

----------------------------------------------------------------------------
(* Storage keys and character codes *)

CHECKIN_KEY == "checkin:daily-v1"
REMINDER_KEY == "checkin:reminder-v1"

Dash == 45
Zero == 48

Max(a, b) == IF a >= b THEN a ELSE b
Min(a, b) == IF a <= b THEN a ELSE b

----------------------------------------------------------------------------
(* The local calendar behind Date: getFullYear, getMonth, getDate and the  *)
(* normalising constructor new Date(y, monthIndex, day).                   *)

IsLeap(y) == (y % 4 = 0 /\ y % 100 # 0) \/ (y % 400 = 0)

DaysInYear(y) == IF IsLeap(y) THEN 366 ELSE 365

DaysInMonth(y, m) ==
    IF m = 2 THEN (IF IsLeap(y) THEN 29 ELSE 28)
    ELSE IF m \in {4, 6, 9, 11} THEN 30 ELSE 31

RECURSIVE DaysBeforeYear(_)
DaysBeforeYear(y) ==
    IF y <= EpochYear THEN 0 ELSE DaysBeforeYear(y - 1) + DaysInYear(y - 1)

RECURSIVE DaysBeforeMonth(_, _)
DaysBeforeMonth(y, m) ==
    IF m <= 1 THEN 0 ELSE DaysBeforeMonth(y, m - 1) + DaysInMonth(y, m - 1)

RECURSIVE YearOfDay(_, _)
YearOfDay(n, y) ==
    IF n < DaysInYear(y) THEN <<y, n>> ELSE YearOfDay(n - DaysInYear(y), y + 1)

RECURSIVE MonthOfDay(_, _, _)
MonthOfDay(n, y, m) ==
    IF n < DaysInMonth(y, m) THEN <<m, n + 1>>
    ELSE MonthOfDay(n - DaysInMonth(y, m), y, m + 1)

LocalDay(t) == t \div TicksPerDay

getFullYear(t) == YearOfDay(LocalDay(t), EpochYear)[1]

getMonth(t) ==
    LET yd == YearOfDay(LocalDay(t), EpochYear)
    IN  MonthOfDay(yd[2], yd[1], 1)[1] - 1

getDate(t) ==
    LET yd == YearOfDay(LocalDay(t), EpochYear)
    IN  MonthOfDay(yd[2], yd[1], 1)[2]

\* new Date(y, monthIndex, day): local midnight; a day outside the month
\* rolls over into the neighbouring months.
NewDate(y, monthIndex, day) ==
    (DaysBeforeYear(y) + DaysBeforeMonth(y, monthIndex + 1) + day - 1) * TicksPerDay

\* date.setDate(day)
setDate(t, day) == NewDate(getFullYear(t), getMonth(t), day)

----------------------------------------------------------------------------
(* String helpers: String(n), padStart(2, '0'), split('-'), Number(p),     *)
(* localeCompare                                                           *)

RECURSIVE String(_)
String(n) ==
    IF n < 10 THEN <<Zero + n>> ELSE Append(String(n \div 10), Zero + (n % 10))

RECURSIVE padStart(_, _, _)
padStart(s, len, ch) == IF Len(s) >= len THEN s ELSE padStart(<<ch>> \o s, len, ch)

RECURSIVE Number(_)
Number(p) ==
    IF p = <<>> THEN 0
    ELSE Number(SubSeq(p, 1, Len(p) - 1)) * 10 + (p[Len(p)] - Zero)

RECURSIVE split(_, _)
split(s, sep) ==
    IF \A i \in 1..Len(s) : s[i] # sep THEN <<s>>
    ELSE LET i == CHOOSE k \in 1..Len(s) :
                      s[k] = sep /\ \A j \in 1..(k - 1) : s[j] # sep
         IN  <<SubSeq(s, 1, i - 1)>> \o split(SubSeq(s, i + 1, Len(s)), sep)

RECURSIVE localeCompare(_, _)
localeCompare(a, b) ==
    IF a = <<>> /\ b = <<>> THEN 0
    ELSE IF a = <<>> THEN -1
    ELSE IF b = <<>> THEN 1
    ELSE IF Head(a) < Head(b) THEN -1
    ELSE IF Head(a) > Head(b) THEN 1
    ELSE localeCompare(Tail(a), Tail(b))

----------------------------------------------------------------------------
(* Check-in store: utils/checkinStorage                                    *)

getLocalDateKey(date) ==
    LET year == getFullYear(date)
        month == padStart(String(getMonth(date) + 1), 2, Zero)
        day == padStart(String(getDate(date)), 2, Zero)
    IN  String(year) \o <<Dash>> \o month \o <<Dash>> \o day

localDateFromDateKey(dateKey) ==
    LET parts == split(dateKey, Dash)
        y == Number(parts[1])
        m == IF Len(parts) >= 2 THEN Number(parts[2]) ELSE 1
        d == IF Len(parts) >= 3 THEN Number(parts[3]) ELSE 1
    IN  NewDate(y, m - 1, d)

\* The value held under a storage key
Absent == [kind |-> "absent", json |-> <<>>]

\* JSON.stringify of one DailyCheckin: an object with five typed fields
ObjectTypes ==
    [dateKey |-> "string", energy |-> "number", mood |-> "number",
     focus |-> "number", updatedAt |-> "number"]

stringifyCheckin(c) ==
    [shape |-> "object", ty |-> ObjectTypes, dateKey |-> c.dateKey,
     energy |-> c.energy, mood |-> c.mood, focus |-> c.focus,
     updatedAt |-> c.updatedAt]

stringifyAll(checkins) ==
    [kind |-> "array",
     json |-> [i \in 1..Len(checkins) |-> stringifyCheckin(checkins[i])]]

parseCheckin(item) ==
    [dateKey |-> item.dateKey, energy |-> item.energy, mood |-> item.mood,
     focus |-> item.focus, updatedAt |-> item.updatedAt]

\* isDailyCheckin without the test of updatedAt
isDailyCheckin_noUpdatedAt(item) ==
    /\ item.shape = "object"
    /\ item.ty.dateKey = "string"
    /\ item.ty.energy = "number"
    /\ item.ty.mood = "number"
    /\ item.ty.focus = "number"

\* The filter callback of loadAllCheckins
isDailyCheckin(item) ==
    /\ item.shape = "object"
    /\ item.ty.dateKey = "string"
    /\ item.ty.energy = "number"
    /\ item.ty.mood = "number"
    /\ item.ty.focus = "number"
    /\ item.ty.updatedAt = "number"

\* Array.prototype.sort with the dateKey comparator (stable)
RECURSIVE insertByDateKey(_, _)
insertByDateKey(sorted, c) ==
    IF sorted = <<>> THEN <<c>>
    ELSE IF localeCompare(sorted[Len(sorted)].dateKey, c.dateKey) <= 0
         THEN Append(sorted, c)
         ELSE Append(insertByDateKey(SubSeq(sorted, 1, Len(sorted) - 1), c),
                     sorted[Len(sorted)])

RECURSIVE sortByDateKey(_)
sortByDateKey(s) ==
    IF s = <<>> THEN <<>>
    ELSE insertByDateKey(sortByDateKey(SubSeq(s, 1, Len(s) - 1)), s[Len(s)])

\* loadAllCheckins without the final sort
loadAllCheckins_unsorted(raw) ==
    IF raw.kind \in {"absent", "empty"} THEN <<>>
    ELSE IF raw.kind # "array" THEN <<>>
    ELSE LET valid == SelectSeq(raw.json, isDailyCheckin)
         IN  [i \in 1..Len(valid) |-> parseCheckin(valid[i])]

loadAllCheckins(raw) ==
    IF raw.kind \in {"absent", "empty"} THEN <<>>
    ELSE IF raw.kind # "array" THEN <<>>
    ELSE LET valid == SelectSeq(raw.json, isDailyCheckin)
         IN  sortByDateKey([i \in 1..Len(valid) |-> parseCheckin(valid[i])])

\* all.find(...) ?? null : the empty sequence stands for null
loadCheckinForDate(raw, dateKey) ==
    LET all == loadAllCheckins(raw)
        hits == {i \in 1..Len(all) : all[i].dateKey = dateKey}
    IN  IF hits = {} THEN <<>>
        ELSE <<all[CHOOSE i \in hits : \A j \in hits : i <= j]>>

saveAllCheckins(checkins) == stringifyAll(sortByDateKey(checkins))

\* clearAllCheckins removing every key of the storage
clearAllCheckins_everyKey(st) == [k \in DOMAIN st |-> Absent]

clearAllCheckins(st) == [st EXCEPT ![CHECKIN_KEY] = Absent]

\* all.findIndex((c) => c.dateKey === dateKey): 0 stands for -1, and the
\* indices count from 1
findIndex(all, dateKey) ==
    LET hits == {i \in 1..Len(all) : all[i].dateKey = dateKey}
    IN  IF hits = {} THEN 0 ELSE CHOOSE i \in hits : \A j \in hits : i <= j

\* putCheckin that appends also when the dateKey is there
putCheckin_alwaysPush(all, next) == Append(all, next)

\* putCheckin that keeps the record it finds
putCheckin_keepExisting(all, next) ==
    LET existingIndex == findIndex(all, next.dateKey)
    IN  IF existingIndex >= 1 THEN all ELSE Append(all, next)

\* putCheckin that replaces the last record instead of the one it finds
putCheckin_replaceLast(all, next) ==
    LET existingIndex == findIndex(all, next.dateKey)
    IN  IF existingIndex >= 1 THEN [all EXCEPT ![Len(all)] = next]
        ELSE Append(all, next)

\* The replace-or-append step of upsertTodayCheckin
putCheckin(all, next) ==
    LET existingIndex == findIndex(all, next.dateKey)
    IN  IF existingIndex >= 1 THEN [all EXCEPT ![existingIndex] = next]
        ELSE Append(all, next)

\* upsertTodayCheckin that stamps the record with the time of its date argument
upsertTodayCheckin_dateStamp(raw, values, date, clock) ==
    LET dateKey == getLocalDateKey(IF date = <<>> THEN clock ELSE date[1])
        updatedAt == IF date = <<>> THEN clock ELSE date[1]
        all == loadAllCheckins(raw)
        next == [dateKey |-> dateKey, energy |-> values.energy,
                 mood |-> values.mood, focus |-> values.focus,
                 updatedAt |-> updatedAt]
    IN  [stored |-> stringifyAll(putCheckin(all, next)), ret |-> next, wrote |-> TRUE]

\* date is <<>> (argument omitted: new Date()) or <<t>>
upsertTodayCheckin(raw, values, date, clock) ==
    LET dateKey == getLocalDateKey(IF date = <<>> THEN clock ELSE date[1])
        updatedAt == clock
        all == loadAllCheckins(raw)
        next == [dateKey |-> dateKey, energy |-> values.energy,
                 mood |-> values.mood, focus |-> values.focus,
                 updatedAt |-> updatedAt]
    IN  [stored |-> stringifyAll(putCheckin(all, next)), ret |-> next, wrote |-> TRUE]

\* The filter callback of purgeCheckinsOlderThan, with > for >=
keptByPurge_exclusive(c, cutoff) == localDateFromDateKey(c.dateKey) > cutoff

\* The filter callback of purgeCheckinsOlderThan
keptByPurge(c, cutoff) == localDateFromDateKey(c.dateKey) >= cutoff

\* The cutoff of purgeCheckinsOlderThan: local midnight (days - 1) days ago
purgeCutoff(days, clock) ==
    LET today == NewDate(getFullYear(clock), getMonth(clock), getDate(clock))
    IN  setDate(today, getDate(today) - (Max(1, days) - 1))

\* purgeCheckinsOlderThan that saves also when it removed nothing
purgeCheckinsOlderThan_alwaysSave(raw, days, clock) ==
    LET all == loadAllCheckins(raw)
        cutoff == purgeCutoff(days, clock)
        kept == SelectSeq(all, LAMBDA c : keptByPurge(c, cutoff))
    IN  IF Len(all) = 0 THEN [stored |-> raw, ret |-> 0, wrote |-> FALSE]
        ELSE [stored |-> saveAllCheckins(kept),
              ret |-> Len(all) - Len(kept), wrote |-> TRUE]

purgeCheckinsOlderThan(raw, days, clock) ==
    LET all == loadAllCheckins(raw)
        cutoff == purgeCutoff(days, clock)
        kept == SelectSeq(all, LAMBDA c : keptByPurge(c, cutoff))
    IN  IF Len(all) = 0 THEN [stored |-> raw, ret |-> 0, wrote |-> FALSE]
        ELSE IF Len(kept) = Len(all) THEN [stored |-> raw, ret |-> 0, wrote |-> FALSE]
        ELSE [stored |-> saveAllCheckins(kept),
              ret |-> Len(all) - Len(kept), wrote |-> TRUE]

----------------------------------------------------------------------------
(* Reminder scheduler: utils/reminderStorage                               *)

REMINDER_KIND == "checkin:daily-reminder-v1"
LEGACY_TITLE == "Reminder"
LEGACY_BODY == "Time to add today's track."

\* ReminderSettings; notificationId is <<>> (undefined) or <<id>>
DefaultSettings == [enabled |-> FALSE, hour |-> 20, minute |-> 0, notificationId |-> <<>>]

\* A JavaScript number that need not be whole (a number parsed from JSON, an
\* argument of clampInt) is a count of 1/Scale units; the hour and minute of
\* a ReminderSettings the program holds are whole and are plain integers
Whole(n) == n * Scale

\* Math.trunc: the fraction is dropped, toward zero
MathTrunc_round(value) == (2 * value + Scale) \div (2 * Scale)

MathTrunc(value) ==
    IF value >= 0 THEN value \div Scale ELSE -((-value) \div Scale)

\* { hour: settings.hour, minute: settings.minute }
timeOf(s) == [hour |-> Whole(s.hour), minute |-> Whole(s.minute)]

clampInt(value, min, max) ==
    LET n == MathTrunc(value)
    IN  Min(max, Max(min, n))

\* JSON.stringify(settings): a key whose value is undefined is left out
stringifySettings(s) ==
    [ty |-> [enabled |-> "boolean", hour |-> "number", minute |-> "number",
             notificationId |-> IF s.notificationId = <<>> THEN "undefined"
                                ELSE "string"],
     enabled |-> s.enabled, hour |-> Whole(s.hour), minute |-> Whole(s.minute),
     notificationId |-> s.notificationId]

\* Boolean(value) of a parsed JSON value of type ty
Boolean(ty, value) ==
    CASE ty = "boolean" -> value
      [] ty = "number" -> value # 0
      [] ty = "string" -> value # ""
      [] ty = "object" -> TRUE
      [] OTHER -> FALSE

\* The try block of loadReminderSettings: JSON.parse throws on text that is
\* not JSON, reading a property of null throws, every other JSON value that
\* is not an object has none of the properties
parseReminderSettings(raw) ==
    IF raw.kind \in {"garbage", "null"}
    THEN [threw |-> TRUE, ret |-> <<>>]
    ELSE IF raw.kind # "object"
    THEN [threw |-> FALSE,
          ret |-> <<[enabled |-> FALSE, hour |-> 20, minute |-> 0,
                     notificationId |-> <<>>]>>]
    ELSE LET parsed == raw.json[1]
             hour == IF parsed.ty.hour = "number"
                     THEN clampInt(parsed.hour, 0, 23) ELSE 20
             minute == IF parsed.ty.minute = "number"
                       THEN clampInt(parsed.minute, 0, 59) ELSE 0
             enabled == Boolean(parsed.ty.enabled, parsed.enabled)
             notificationId == IF parsed.ty.notificationId = "string"
                               THEN parsed.notificationId ELSE <<>>
         IN  [threw |-> FALSE,
              ret |-> <<[enabled |-> enabled, hour |-> hour, minute |-> minute,
                         notificationId |-> notificationId]>>]

loadReminderSettings_fallbackMidnight(raw) ==
    IF raw.kind \in {"absent", "empty"} THEN DefaultSettings
    ELSE LET r == parseReminderSettings(raw)
         IN  IF r.threw THEN [DefaultSettings EXCEPT !.hour = 0]
             ELSE r.ret[1]

loadReminderSettings(raw) ==
    IF raw.kind \in {"absent", "empty"} THEN DefaultSettings
    ELSE LET r == parseReminderSettings(raw)
         IN  IF r.threw THEN DefaultSettings
             ELSE r.ret[1]

saveReminderSettings(st, s) ==
    [st EXCEPT ![REMINDER_KEY] = [kind |-> "object", json |-> <<stringifySettings(s)>>]]

hasReminderPermissions_always(perm) == TRUE

hasReminderPermissions(perm) == perm = "granted"

isReminderRequest(req) ==
    IF req.kind = REMINDER_KIND THEN TRUE
    ELSE req.title = LEGACY_TITLE /\ req.body = LEGACY_BODY

\* fail names the platform calls that throw during the call:
\* fail.list (getAllScheduledNotificationsAsync), fail.blanket
\* (cancelAllScheduledNotificationsAsync), fail.cancel (the identifiers whose
\* cancelScheduledNotificationAsync throws)
cancelAllReminders_countOnly(sched, fail) ==
    IF ~fail.list
    THEN [scheduled |-> sched, ret |-> Cardinality({req \in sched : isReminderRequest(req)}),
          attempted |-> {}, threw |-> FALSE]
    ELSE IF ~fail.blanket
    THEN [scheduled |-> {}, ret |-> -1, attempted |-> {}, threw |-> FALSE]
    ELSE [scheduled |-> sched, ret |-> 0, attempted |-> {}, threw |-> FALSE]

\* the listing fails and nothing else is tried
cancelAllReminders_noFallback(sched, fail) ==
    IF ~fail.list
    THEN LET toCancel == {req \in sched : isReminderRequest(req)}
         IN  [scheduled |-> sched \ {req \in toCancel : req.identifier \notin fail.cancel},
              ret |-> Cardinality(toCancel),
              attempted |-> {req.identifier : req \in toCancel}, threw |-> FALSE]
    ELSE [scheduled |-> sched, ret |-> 0, attempted |-> {}, threw |-> FALSE]

\* one failing cancellation keeps the others from being made
cancelAllReminders_allOrNothing(sched, fail) ==
    IF ~fail.list
    THEN LET toCancel == {req \in sched : isReminderRequest(req)}
             failing == {req \in toCancel : req.identifier \in fail.cancel}
         IN  [scheduled |-> IF failing = {} THEN sched \ toCancel ELSE sched,
              ret |-> Cardinality(toCancel),
              attempted |-> {req.identifier : req \in failing}, threw |-> FALSE]
    ELSE IF ~fail.blanket
    THEN [scheduled |-> {}, ret |-> -1, attempted |-> {}, threw |-> FALSE]
    ELSE [scheduled |-> sched, ret |-> 0, attempted |-> {}, threw |-> FALSE]

\* The result of running cancelAllReminders to completion: what is left on the
\* platform, the number returned, the identifiers passed to
\* cancelScheduledNotificationAsync, and whether the promise rejected
cancelAllReminders(sched, fail) ==
    IF ~fail.list
    THEN LET toCancel == {req \in sched : isReminderRequest(req)}
         IN  [scheduled |-> sched \ {req \in toCancel : req.identifier \notin fail.cancel},
              ret |-> Cardinality(toCancel),
              attempted |-> {req.identifier : req \in toCancel}, threw |-> FALSE]
    ELSE IF ~fail.blanket
    THEN [scheduled |-> {}, ret |-> -1, attempted |-> {}, threw |-> FALSE]
    ELSE [scheduled |-> sched, ret |-> 0, attempted |-> {}, threw |-> FALSE]

\* id is the identifier the platform gives the new request
scheduleDailyReminder_replacing(sched, id, params) ==
    [scheduled |-> {req \in sched : ~isReminderRequest(req)} \cup
         {[identifier |-> id, title |-> "Reminder",
           body |-> "Time to add today's track.", kind |-> REMINDER_KIND,
           hour |-> clampInt(params.hour, 0, 23),
           minute |-> clampInt(params.minute, 0, 59)]},
     ret |-> <<id>>]

scheduleDailyReminder(sched, id, params) ==
    [scheduled |-> sched \cup
         {[identifier |-> id, title |-> "Reminder",
           body |-> "Time to add today's track.", kind |-> REMINDER_KIND,
           hour |-> clampInt(params.hour, 0, 23),
           minute |-> clampInt(params.minute, 0, 59)]},
     ret |-> <<id>>]

\* answer is the user's reply to the permission prompt
requestReminderPermissions(perm, answer) ==
    IF perm = "granted" THEN [permission |-> perm, ret |-> TRUE]
    ELSE [permission |-> IF answer THEN "granted" ELSE "denied", ret |-> answer]

\* relist: the getAllScheduledNotificationsAsync of a cancelAllReminders that
\* runs after the caller's own listing succeeded
NoFailure ==
    [list |-> FALSE, blanket |-> FALSE, cancel |-> {}, permission |-> FALSE,
     schedule |-> FALSE, save |-> FALSE, relist |-> FALSE]

Reminders(sched) == {req \in sched : isReminderRequest(req)}

Identifiers(sched) == {req.identifier : req \in sched}

\* reconcileReminderSchedule, nothing scheduled: create it
createMissing_idNotAttached(s, sched, id) ==
    LET fresh == scheduleDailyReminder(sched, id, timeOf(s))
    IN  [threw |-> FALSE, ret |-> s, scheduled |-> fresh.scheduled, nextId |-> id + 1]

createMissing(s, sched, id) ==
    LET fresh == scheduleDailyReminder(sched, id, timeOf(s))
    IN  [threw |-> FALSE, ret |-> [s EXCEPT !.notificationId = fresh.ret],
         scheduled |-> fresh.scheduled, nextId |-> id + 1]

\* reconcileReminderSchedule, exactly one scheduled: sync the stored id
syncStoredId_keepStored(s, reminders) ==
    LET onlyId == (CHOOSE req \in reminders : TRUE).identifier
    IN  IF s.notificationId # <<>> THEN s
        ELSE [s EXCEPT !.notificationId = <<onlyId>>]

syncStoredId(s, reminders) ==
    LET onlyId == (CHOOSE req \in reminders : TRUE).identifier
    IN  IF <<onlyId>> # s.notificationId
        THEN [s EXCEPT !.notificationId = <<onlyId>>]
        ELSE s

\* reconcileReminderSchedule, more than one scheduled: cancel all and
\* schedule a single new one
replaceDuplicates_cancelStored(s, sched, id, fail) ==
    LET left == {req \in sched : <<req.identifier>> # s.notificationId}
        fresh == scheduleDailyReminder(left, id, timeOf(s))
    IN  IF fail.schedule
        THEN [threw |-> TRUE, ret |-> s, scheduled |-> left, nextId |-> id]
        ELSE [threw |-> FALSE, ret |-> [s EXCEPT !.notificationId = fresh.ret],
              scheduled |-> fresh.scheduled, nextId |-> id + 1]

replaceDuplicates(s, sched, id, fail) ==
    LET cancelled == cancelAllReminders(sched, [fail EXCEPT !.list = fail.relist])
        fresh == scheduleDailyReminder(cancelled.scheduled, id, timeOf(s))
    IN  IF fail.schedule
        THEN [threw |-> TRUE, ret |-> s, scheduled |-> cancelled.scheduled, nextId |-> id]
        ELSE [threw |-> FALSE, ret |-> [s EXCEPT !.notificationId = fresh.ret],
              scheduled |-> fresh.scheduled, nextId |-> id + 1]

\* The result of running reconcileReminderSchedule(s) to completion: what it
\* returns (or that it threw) and what it leaves on the platform
reconcileReminderSchedule_alwaysReplace(s, sched, perm, id, fail) ==
    LET unchanged == [threw |-> FALSE, ret |-> s, scheduled |-> sched, nextId |-> id]
        thrown == [threw |-> TRUE, ret |-> s, scheduled |-> sched, nextId |-> id]
        reminders == Reminders(sched)
    IN  IF ~s.enabled THEN unchanged
        ELSE IF fail.permission THEN thrown
        ELSE IF ~hasReminderPermissions(perm) THEN unchanged
        ELSE IF fail.list THEN thrown
        ELSE IF Cardinality(reminders) = 0
        THEN IF fail.schedule THEN thrown ELSE createMissing(s, sched, id)
        ELSE replaceDuplicates(s, sched, id, fail)

reconcileReminderSchedule(s, sched, perm, id, fail) ==
    LET unchanged == [threw |-> FALSE, ret |-> s, scheduled |-> sched, nextId |-> id]
        thrown == [threw |-> TRUE, ret |-> s, scheduled |-> sched, nextId |-> id]
        reminders == Reminders(sched)
    IN  IF ~s.enabled THEN unchanged
        ELSE IF fail.permission THEN thrown
        ELSE IF ~hasReminderPermissions(perm) THEN unchanged
        ELSE IF fail.list THEN thrown
        ELSE IF Cardinality(reminders) = 0
        THEN IF fail.schedule THEN thrown ELSE createMissing(s, sched, id)
        ELSE IF Cardinality(reminders) = 1
        THEN [unchanged EXCEPT !.ret = syncStoredId(s, reminders)]
        ELSE replaceDuplicates(s, sched, id, fail)

\* SettingsScreen persist, the catch clause: nothing is written
caught(st, sched, perm, id, scr) ==
    [storage |-> st, scheduled |-> sched, permission |-> perm, nextId |-> id,
     settings |-> scr, statusLabel |-> "Error"]

\* SettingsScreen persist, permission refused
deniedSettings_keepsId(next) == [next EXCEPT !.enabled = FALSE]

deniedSettings(next) == [next EXCEPT !.enabled = FALSE, !.notificationId = <<>>]

persistDenied(next, st, sched, perm, id, fail) ==
    LET disabled == deniedSettings(next)
    IN  IF fail.save THEN caught(st, sched, perm, id, disabled)
        ELSE [storage |-> saveReminderSettings(st, disabled), scheduled |-> sched,
              permission |-> perm, nextId |-> id, settings |-> disabled,
              statusLabel |-> "Notifications not allowed"]

\* SettingsScreen persist, the new state is disabled: the id is cleared
clearedId_kept(next) == next.notificationId

clearedId(next) == <<>>

\* SettingsScreen persist, the last three statements of the try block
persistSaved_writeThenThrow(saved, st, sched, perm, id, fail) ==
    IF fail.save THEN caught(saveReminderSettings(st, saved), sched, perm, id, saved)
    ELSE [storage |-> saveReminderSettings(st, saved), scheduled |-> sched,
          permission |-> perm, nextId |-> id, settings |-> saved,
          statusLabel |-> "Saved"]

persistSaved(saved, st, sched, perm, id, fail) ==
    IF fail.save THEN caught(st, sched, perm, id, saved)
    ELSE [storage |-> saveReminderSettings(st, saved), scheduled |-> sched,
          permission |-> perm, nextId |-> id, settings |-> saved,
          statusLabel |-> "Saved"]

\* SettingsScreen persist: the result of running the whole flow
persist(next, st, sched, perm, id, cur, answer, fail) ==
    LET cancelled == cancelAllReminders(sched, fail)
        asked == requestReminderPermissions(perm, answer)
        fresh == scheduleDailyReminder(cancelled.scheduled, id, timeOf(next))
    IN  IF next.enabled
        THEN IF fail.permission THEN caught(st, cancelled.scheduled, perm, id, cur)
             ELSE IF ~asked.ret
             THEN persistDenied(next, st, cancelled.scheduled, asked.permission, id, fail)
             ELSE IF fail.schedule
             THEN caught(st, cancelled.scheduled, asked.permission, id, cur)
             ELSE persistSaved([next EXCEPT !.notificationId = fresh.ret], st,
                               fresh.scheduled, asked.permission, id + 1, fail)
        ELSE persistSaved([next EXCEPT !.notificationId = clearedId(next)], st,
                          cancelled.scheduled, perm, id, fail)

----------------------------------------------------------------------------
(* Inputs *)

StartTick == StartDay * TicksPerDay
MaxNow == StartTick + MaxTicks

Values1 == [energy |-> 3, mood |-> 5, focus |-> 7]
Values2 == [energy |-> 9, mood |-> 4, focus |-> 1]
Values == {Values1, Values2}

\* The date argument of upsertTodayCheckin: omitted, or a time on the day
\* before the first day of the model
DateArgs == {<<>>, <<(StartDay - 1) * TicksPerDay + 1>>}

DaysArgs == 0..MaxDays

Hours == {20, 21}

Failures ==
    {NoFailure,
     [NoFailure EXCEPT !.list = TRUE],
     [NoFailure EXCEPT !.list = TRUE, !.blanket = TRUE],
     [NoFailure EXCEPT !.permission = TRUE],
     [NoFailure EXCEPT !.schedule = TRUE],
     [NoFailure EXCEPT !.save = TRUE]}
    \cup {[NoFailure EXCEPT !.cancel = {i}] : i \in 1..MaxIds}

\* Values that may be found under the check-in key when the application did
\* not write them itself: elements of every JSON type next to well-formed ones
NoTypes ==
    [dateKey |-> "undefined", energy |-> "undefined", mood |-> "undefined",
     focus |-> "undefined", updatedAt |-> "undefined"]

RawObject(day, values, types) ==
    [shape |-> "object", ty |-> types, dateKey |-> getLocalDateKey(day * TicksPerDay),
     energy |-> values.energy, mood |-> values.mood, focus |-> values.focus,
     updatedAt |-> StartTick]

RawItems ==
    {RawObject(StartDay, Values1, ObjectTypes),
     RawObject(StartDay - 1, Values2, ObjectTypes),
     RawObject(StartDay - 1, Values1, ObjectTypes),
     [RawObject(StartDay, Values1, NoTypes) EXCEPT !.shape = "null"],
     [RawObject(StartDay, Values1, NoTypes) EXCEPT !.shape = "number"],
     RawObject(StartDay, Values1, [ObjectTypes EXCEPT !.energy = "string"]),
     RawObject(StartDay, Values1, [ObjectTypes EXCEPT !.updatedAt = "undefined"])}

RawValues ==
    {Absent, [kind |-> "empty", json |-> <<>>], [kind |-> "garbage", json |-> <<>>],
     [kind |-> "object", json |-> <<>>]}
    \cup {[kind |-> "array", json |-> items] :
             items \in UNION {[1..n -> RawItems] : n \in 0..RawLen}}

----------------------------------------------------------------------------
(* Operations of the store, each run to completion *)

NoValues == [energy |-> 0, mood |-> 0, focus |-> 0]

Op(name, values, date, days, ret, wrote) ==
    [op |-> name, values |-> values, date |-> date, days |-> days, ret |-> ret,
     wrote |-> wrote, pre |-> storage, preScheduled |-> scheduled, time |-> now]

Summary(o) ==
    [op |-> o.op,
     dateKey |-> IF o.op = "upsert" THEN o.ret.dateKey ELSE <<>>,
     days |-> o.days,
     day |-> LocalDay(o.time)]

NoOp ==
    [op |-> "none", values |-> NoValues, date |-> <<>>, days |-> 0, ret |-> 0,
     wrote |-> FALSE, pre |-> [k \in {CHECKIN_KEY, REMINDER_KEY} |-> Absent],
     preScheduled |-> {}, time |-> StartTick]

\* The record of a handler that calls no operation of the check-in store
ScreenOp(name) == [NoOp EXCEPT !.op = name]

\* A run of a reminder operation: the settings it was given, the prompt's
\* answer, the calls that failed, what was stored and scheduled when it began,
\* what it returned, and a summary of the run before it
Run(name, arg, answer, fail, ret, threw) ==
    [op |-> name, arg |-> arg, answer |-> answer, fail |-> fail,
     stored |-> storage[REMINDER_KEY], scheduled |-> scheduled,
     permission |-> permission, ret |-> ret, threw |-> threw,
     prev |-> [op |-> rem.op, ret |-> rem.ret,
               clean |-> rem.fail = NoFailure /\ ~rem.threw,
               count |-> Cardinality(Reminders(rem.scheduled))]]

NoRun ==
    [op |-> "none", arg |-> DefaultSettings, answer |-> FALSE, fail |-> NoFailure,
     stored |-> Absent, scheduled |-> {}, permission |-> "undetermined",
     ret |-> DefaultSettings, threw |-> FALSE,
     prev |-> [op |-> "none", ret |-> DefaultSettings, clean |-> TRUE, count |-> 0]]

\* The suspended flows are a bag: two flows may be at the same await with the
\* same locals
NoTasks == EmptyBag

InitRest ==
    /\ now = StartTick
    /\ scheduled = {}
    /\ permission = "undetermined"
    /\ nextId = 1
    /\ settings = DefaultSettings
    /\ statusLabel = ""
    /\ deleteState = "idle"
    /\ savedCount = 0
    /\ saveState = "idle"
    /\ lastOp = NoOp
    /\ prevOp = Summary(NoOp)
    /\ rem = NoRun
    /\ tasks = NoTasks

Init ==
    /\ storage = [k \in {CHECKIN_KEY, REMINDER_KEY} |-> Absent]
    /\ InitRest

InitRaw ==
    /\ \E raw \in RawValues :
          storage = [k \in {CHECKIN_KEY, REMINDER_KEY} |->
                        IF k = CHECKIN_KEY THEN raw ELSE Absent]
    /\ InitRest

Upsert(values, date) ==
    LET r == upsertTodayCheckin(storage[CHECKIN_KEY], values, date, now)
    IN  /\ storage' = [storage EXCEPT ![CHECKIN_KEY] = r.stored]
        /\ lastOp' = Op("upsert", values, date, 0, r.ret, r.wrote)
        /\ prevOp' = Summary(lastOp)
        /\ UNCHANGED <<now, platformVars, flowVars, screenVars>>

Purge(days) ==
    LET r == purgeCheckinsOlderThan(storage[CHECKIN_KEY], days, now)
    IN  /\ storage' = [storage EXCEPT ![CHECKIN_KEY] = r.stored]
        /\ lastOp' = Op("purge", NoValues, <<>>, days, r.ret, r.wrote)
        /\ prevOp' = Summary(lastOp)
        /\ UNCHANGED <<now, platformVars, flowVars, screenVars>>

ClearAll ==
    /\ storage' = clearAllCheckins(storage)
    /\ lastOp' = Op("clear", NoValues, <<>>, 0, 0, TRUE)
    /\ prevOp' = Summary(lastOp)
    /\ UNCHANGED <<now, platformVars, flowVars, screenVars>>

LoadAll ==
    /\ lastOp' = Op("load", NoValues, <<>>, 0, loadAllCheckins(storage[CHECKIN_KEY]), FALSE)
    /\ prevOp' = Summary(lastOp)
    /\ UNCHANGED <<storeVars, platformVars, flowVars, screenVars>>

Tick ==
    /\ now < MaxNow
    /\ now' = now + 1
    /\ UNCHANGED <<storage, platformVars, flowVars, screenVars, lastOp, prevOp>>

Next ==
    \/ \E v \in Values, d \in DateArgs : Upsert(v, d)
    \/ \E n \in DaysArgs : Purge(n)
    \/ ClearAll
    \/ LoadAll
    \/ Tick

Spec == Init /\ [][Next]_vars

\* The store's operations on a value that the application did not write, at
\* one instant of the clock
NextRaw ==
    \/ \E v \in Values, d \in DateArgs : Upsert(v, d)
    \/ \E n \in DaysArgs : Purge(n)
    \/ ClearAll
    \/ LoadAll

SpecRaw == InitRaw /\ [][NextRaw]_vars

\* The store's writers with any date argument, the days after today included
AnyDateArgs == DateArgs \cup {<<(StartDay + 1) * TicksPerDay>>}

NextDates ==
    \/ \E d \in AnyDateArgs : Upsert(Values1, d)
    \/ \E n \in DaysArgs : Purge(n)
    \/ Tick

SpecDates == Init /\ [][NextDates]_vars

----------------------------------------------------------------------------
(* The screens' handlers, each run to completion.  fails names the call of  *)
(* the handler whose storage access throws, "none" when none does.          *)

\* HomeScreen: Save onPress
HomeSave(values, fails) ==
    LET r == upsertTodayCheckin(storage[CHECKIN_KEY], values, <<>>, now)
    IN  /\ saveState # "saving"
        /\ IF fails = "upsert"
           THEN /\ saveState' = "error"
                /\ lastOp' = Op("upsertFailed", values, <<>>, 0, 0, FALSE)
                /\ UNCHANGED <<storage, savedCount>>
           ELSE IF fails = "load"
           THEN /\ storage' = [storage EXCEPT ![CHECKIN_KEY] = r.stored]
                /\ saveState' = "error"
                /\ lastOp' = Op("upsert", values, <<>>, 0, r.ret, r.wrote)
                /\ UNCHANGED savedCount
           ELSE /\ storage' = [storage EXCEPT ![CHECKIN_KEY] = r.stored]
                /\ savedCount' = Len(loadAllCheckins(r.stored))
                /\ saveState' = "saving"
                /\ lastOp' = Op("upsert", values, <<>>, 0, r.ret, r.wrote)
        /\ prevOp' = Summary(lastOp)
        /\ UNCHANGED <<now, platformVars, flowVars, settings, statusLabel, deleteState>>

\* HomeScreen: the timer that resets the Save button
SaveLabelTimeout ==
    /\ saveState # "idle"
    /\ saveState' = "idle"
    /\ UNCHANGED <<storeVars, platformVars, flowVars, settings, statusLabel, deleteState,
                   savedCount, lastOp, prevOp>>

\* SettingsScreen: Delete onPress, confirmed in the alert
DeletePress(fails) ==
    /\ deleteState # "deleting"
    /\ IF fails
       THEN /\ deleteState' = "error"
            /\ statusLabel' = "Error"
            /\ lastOp' = Op("clearFailed", NoValues, <<>>, 0, 0, FALSE)
            /\ UNCHANGED storage
       ELSE /\ storage' = clearAllCheckins(storage)
            /\ deleteState' = "deleting"
            /\ statusLabel' = "Deleted"
            /\ lastOp' = Op("clear", NoValues, <<>>, 0, 0, TRUE)
    /\ prevOp' = Summary(lastOp)
    /\ UNCHANGED <<now, platformVars, flowVars, settings, savedCount, saveState>>

\* SettingsScreen: the timer that resets the Delete button
DeleteLabelTimeout ==
    /\ deleteState # "idle"
    /\ deleteState' = "idle"
    /\ UNCHANGED <<storeVars, platformVars, flowVars, settings, statusLabel, savedCount,
                   saveState, lastOp, prevOp>>

\* SettingsScreen: the focus effect loads the stored settings
SettingsFocus ==
    /\ settings' = loadReminderSettings(storage[REMINDER_KEY])
    /\ lastOp' = ScreenOp("focus")
    /\ prevOp' = Summary(lastOp)
    /\ UNCHANGED <<storeVars, platformVars, tasks, statusLabel, deleteState, savedCount,
                   saveState>>

Persist(next, answer, fail) ==
    LET r == persist(next, storage, scheduled, permission, nextId, settings, answer, fail)
    IN  /\ nextId <= MaxIds
        /\ storage' = r.storage
        /\ scheduled' = r.scheduled
        /\ permission' = r.permission
        /\ nextId' = r.nextId
        /\ settings' = r.settings
        /\ statusLabel' = r.statusLabel
        /\ lastOp' = ScreenOp("persist")
        /\ prevOp' = Summary(lastOp)
        /\ UNCHANGED <<now, deleteState, savedCount, saveState, tasks>>

\* SettingsScreen: Switch onValueChange
SwitchChange(answer, fail) ==
    \E enabled \in BOOLEAN :
        /\ enabled # settings.enabled
        /\ Persist([settings EXCEPT !.enabled = enabled], answer, fail)

\* SettingsScreen: hour Slider onValueChange
SliderChange(hour) ==
    /\ settings.enabled
    /\ settings' = [settings EXCEPT !.hour = hour]
    /\ UNCHANGED <<storeVars, platformVars, flowVars, statusLabel, deleteState, savedCount,
                   saveState, lastOp, prevOp>>

\* SettingsScreen: Slider onSlidingComplete
SlidingComplete(answer, fail) ==
    /\ settings.enabled
    /\ Persist(settings, answer, fail)

NextApp ==
    \/ \E v \in Values, fails \in {"none", "upsert", "load"} : HomeSave(v, fails)
    \/ SaveLabelTimeout
    \/ \E fails \in BOOLEAN : DeletePress(fails)
    \/ DeleteLabelTimeout
    \/ SettingsFocus /\ UNCHANGED rem
    \/ \E answer \in BOOLEAN, fail \in Failures :
          SwitchChange(answer, fail) /\ UNCHANGED rem
    \/ \E hour \in Hours : SliderChange(hour)
    \/ \E answer \in BOOLEAN, fail \in Failures :
          SlidingComplete(answer, fail) /\ UNCHANGED rem

SpecApp == Init /\ [][NextApp]_vars

----------------------------------------------------------------------------
(* reconcileReminderSchedule, run to completion on a platform that earlier  *)
(* installs and earlier faults left in any state                            *)

\* Requests found on the platform: tagged by this application, created
\* before the tag existed, and scheduled with another title
Request(id, title, body, kind) ==
    [identifier |-> id, title |-> title, body |-> body, kind |-> kind,
     hour |-> 20, minute |-> 0]

PreRequests ==
    {Request(MaxIds + 1, LEGACY_TITLE, LEGACY_BODY, REMINDER_KIND),
     Request(MaxIds + 2, LEGACY_TITLE, LEGACY_BODY, "undefined"),
     Request(MaxIds + 3, "Other", LEGACY_BODY, REMINDER_KIND),
     Request(MaxIds + 4, "Other", LEGACY_BODY, "undefined")}

Permissions == {"undetermined", "granted", "denied"}

ReconcileArgs ==
    {[enabled |-> e, hour |-> 20, minute |-> 0, notificationId |-> n] :
        e \in BOOLEAN, n \in {<<>>, <<MaxIds + 1>>, <<MaxIds + 4>>}}
    \cup {[enabled |-> TRUE, hour |-> 21, minute |-> 30, notificationId |-> <<MaxIds + 1>>]}

ReconcileFailures ==
    {NoFailure,
     [NoFailure EXCEPT !.permission = TRUE],
     [NoFailure EXCEPT !.list = TRUE],
     [NoFailure EXCEPT !.schedule = TRUE],
     [NoFailure EXCEPT !.cancel = {MaxIds + 1}],
     [NoFailure EXCEPT !.relist = TRUE],
     [NoFailure EXCEPT !.relist = TRUE, !.blanket = TRUE]}

InitReconcile ==
    /\ storage = [k \in {CHECKIN_KEY, REMINDER_KEY} |-> Absent]
    /\ now = StartTick
    /\ scheduled \in SUBSET PreRequests
    /\ permission \in Permissions
    /\ nextId = 1
    /\ settings = DefaultSettings
    /\ statusLabel = ""
    /\ deleteState = "idle"
    /\ savedCount = 0
    /\ saveState = "idle"
    /\ lastOp = NoOp
    /\ prevOp = Summary(NoOp)
    /\ rem = NoRun
    /\ tasks = NoTasks

Reconcile(s, fail) ==
    LET r == reconcileReminderSchedule(s, scheduled, permission, nextId, fail)
    IN  /\ nextId <= MaxIds
        /\ scheduled' = r.scheduled
        /\ nextId' = r.nextId
        /\ rem' = Run("reconcile", s, FALSE, fail, r.ret, r.threw)
        /\ UNCHANGED <<storeVars, permission, screenVars, lastOp, prevOp, tasks>>

\* The caller passes settings of its own or the settings the last run returned
NextReconcile ==
    \/ \E s \in ReconcileArgs, fail \in ReconcileFailures : Reconcile(s, fail)
    \/ \E fail \in ReconcileFailures : rem.op = "reconcile" /\ Reconcile(rem.ret, fail)

SpecReconcile == InitReconcile /\ [][NextReconcile]_vars

----------------------------------------------------------------------------
(* cancelAllReminders and scheduleDailyReminder called on their own, on a   *)
(* platform in any state                                                    *)

\* Times given to scheduleDailyReminder: whole, with a fraction, out of range
ScheduleParams ==
    {[hour |-> Whole(20), minute |-> 0],
     [hour |-> Whole(21) + Scale - 1, minute |-> Whole(30) + 1],
     [hour |-> Whole(30), minute |-> Whole(-5)],
     [hour |-> 1 - Scale, minute |-> Whole(59) + Scale - 1]}

\* The listing fails, the listing and the blanket cancel fail, or the
\* cancellation of some requests fails
CancelFailures ==
    {[NoFailure EXCEPT !.list = TRUE],
     [NoFailure EXCEPT !.list = TRUE, !.blanket = TRUE]}
    \cup {[NoFailure EXCEPT !.cancel = ids] : ids \in SUBSET {1, MaxIds + 1, MaxIds + 2}}

CancelAll(fail) ==
    LET r == cancelAllReminders(scheduled, fail)
    IN  /\ scheduled' = r.scheduled
        /\ rem' = Run("cancelAll", DefaultSettings, FALSE, fail,
                      [count |-> r.ret, attempted |-> r.attempted], r.threw)
        /\ UNCHANGED <<storeVars, permission, nextId, screenVars, lastOp, prevOp, tasks>>

\* fails: ensureAndroidChannel or scheduleNotificationAsync rejects, and
\* nothing is scheduled
Schedule(params, fails) ==
    LET r == scheduleDailyReminder(scheduled, nextId, params)
    IN  /\ nextId <= MaxIds
        /\ scheduled' = IF fails THEN scheduled ELSE r.scheduled
        /\ nextId' = IF fails THEN nextId ELSE nextId + 1
        /\ rem' = Run("schedule", params, FALSE, [NoFailure EXCEPT !.schedule = fails],
                      r.ret, fails)
        /\ UNCHANGED <<storeVars, permission, screenVars, lastOp, prevOp, tasks>>

NextPlatform ==
    \/ \E fail \in CancelFailures : CancelAll(fail)
    \/ \E params \in ScheduleParams, fails \in BOOLEAN : Schedule(params, fails)

SpecPlatform == InitReconcile /\ [][NextPlatform]_vars

----------------------------------------------------------------------------
(* The settings screen alone, each handler run to completion, over anything *)
(* that may be found under the reminder key and on the platform             *)

SettingsTypes ==
    [enabled |-> "boolean", hour |-> "number", minute |-> "number",
     notificationId |-> "string"]

RawSettings(types, enabled, hour, minute, id) ==
    [kind |-> "object",
     json |-> <<[ty |-> types, enabled |-> enabled, hour |-> hour,
                 minute |-> minute, notificationId |-> id]>>]

\* Stored values: nothing, the empty string, text that is not JSON, JSON that
\* is not an object, and objects with fields of every type and range
RawReminders ==
    {Absent, [kind |-> "empty", json |-> <<>>], [kind |-> "garbage", json |-> <<>>],
     [kind |-> "null", json |-> <<>>], [kind |-> "number", json |-> <<>>],
     [kind |-> "array", json |-> <<>>],
     RawSettings(SettingsTypes, TRUE, Whole(21), 0, <<MaxIds + 1>>),
     RawSettings(SettingsTypes, FALSE, Whole(20), 0, <<MaxIds + 1>>),
     RawSettings([SettingsTypes EXCEPT !.hour = "string", !.notificationId = "undefined"],
                 TRUE, Whole(21), 0, <<>>),
     RawSettings([SettingsTypes EXCEPT !.enabled = "number", !.notificationId = "number"],
                 1, Whole(30), Whole(-5), <<>>),
     RawSettings(SettingsTypes, TRUE, Whole(21) + Scale - 1, Whole(30) + Scale - 1,
                 <<MaxIds + 1>>),
     RawSettings([SettingsTypes EXCEPT !.minute = "boolean"],
                 TRUE, 1 - Scale, Whole(30), <<MaxIds + 1>>)}

InitSettings ==
    /\ \E raw \in RawReminders :
          storage = [k \in {CHECKIN_KEY, REMINDER_KEY} |->
                        IF k = REMINDER_KEY THEN raw ELSE Absent]
    /\ now = StartTick
    /\ scheduled \in {{}, {req \in PreRequests : req.title = LEGACY_TITLE}}
    /\ permission \in Permissions
    /\ nextId = 1
    /\ settings = DefaultSettings
    /\ statusLabel = ""
    /\ deleteState = "idle"
    /\ savedCount = 0
    /\ saveState = "idle"
    /\ lastOp = NoOp
    /\ prevOp = Summary(NoOp)
    /\ rem = NoRun
    /\ tasks = NoTasks

NextSettings ==
    \/ /\ SettingsFocus
       /\ rem' = Run("load", settings, FALSE, NoFailure, settings', FALSE)
    \/ \E answer \in BOOLEAN, fail \in Failures :
          /\ SwitchChange(answer, fail)
          /\ rem' = Run("switch", settings, answer, fail, settings', FALSE)
    \/ \E hour \in Hours : SliderChange(hour)
    \/ \E answer \in BOOLEAN, fail \in Failures :
          /\ SlidingComplete(answer, fail)
          /\ rem' = Run("slide", settings, answer, fail, settings', FALSE)

SpecSettings == InitSettings /\ [][NextSettings]_vars

----------------------------------------------------------------------------
(* The reminder flows step by step: a flow runs from one await to the next  *)
(* without interruption, and at an await any other flow may run.  The       *)
(* application starts with the reconcile effect of RootLayout suspended in  *)
(* loadReminderSettings; the settings screen starts a persist flow at every *)
(* toggle and at every end of sliding, whether or not one is in flight, up  *)
(* to MaxFlows times.                                                       *)

MaxFlows == 2

Task(kind, pc, arg, next, found, calls) ==
    [kind |-> kind, pc |-> pc, arg |-> arg, next |-> next, found |-> found,
     calls |-> calls]

\* A flow that has ended
Done(t) == Task(t.kind, "done", DefaultSettings, DefaultSettings, {}, <<>>)

\* persist(next) up to its first await
persistStart_askFirst(next) ==
    IF next.enabled
    THEN Task("persist", "permission", next, next, {}, <<"requestReminderPermissions">>)
    ELSE Task("persist", "list", next, next, {}, <<"cancelAllReminders">>)

persistStart(next) ==
    Task("persist", "list", next, next, {}, <<"cancelAllReminders">>)

\* RootLayout's reconcile() up to its first await
reconcileStart ==
    Task("reconcile", "load", DefaultSettings, DefaultSettings, {},
         <<"loadReminderSettings">>)

At(t, kind, pc) ==
    /\ BagIn(t, tasks)
    /\ t.kind = kind
    /\ t.pc = pc

Replace(t, u) == tasks' = (tasks (-) SetToBag({t})) (+) SetToBag({u})

Proceed(t, pc, next, found, call) ==
    Replace(t, Task(t.kind, pc, t.arg, next, found, t.calls \o call))

\* A flow returns
Finish(t) == Replace(t, Done(t))

StartPersist(next) ==
    /\ BagCardinality(tasks) <= MaxFlows
    /\ tasks' = tasks (+) SetToBag({persistStart(next)})
    /\ UNCHANGED <<storeVars, platformVars, screenVars, lastOp, prevOp, rem>>

\* SettingsScreen focus effect: loadReminderSettings resolves
FocusLoaded ==
    /\ settings' = loadReminderSettings(storage[REMINDER_KEY])
    /\ UNCHANGED <<storeVars, platformVars, statusLabel, deleteState, savedCount,
                   saveState, lastOp, prevOp, flowVars>>

\* SettingsScreen: Switch onValueChange
ToggleStart ==
    \E enabled \in BOOLEAN :
        /\ enabled # settings.enabled
        /\ StartPersist([settings EXCEPT !.enabled = enabled])

\* SettingsScreen: Slider onSlidingComplete
SlideStart == settings.enabled /\ StartPersist(settings)

\* cancelAllReminders: getAllScheduledNotificationsAsync resolves
PersistList ==
    \E t \in BagToSet(tasks) :
        /\ At(t, "persist", "list")
        /\ Proceed(t, "cancel", t.next, Identifiers(Reminders(scheduled)), <<>>)
        /\ UNCHANGED <<storeVars, platformVars, screenVars, lastOp, prevOp, rem>>

\* cancelAllReminders: the cancellations resolve and persist goes on to the
\* permission request or, with the new state disabled, to the write
PersistCancel ==
    \E t \in BagToSet(tasks) :
        /\ At(t, "persist", "cancel")
        /\ scheduled' = {req \in scheduled : req.identifier \notin t.found}
        /\ IF t.next.enabled
           THEN /\ Proceed(t, "permission", t.next, {},
                           <<"cancelAllReminders returned", "requestReminderPermissions">>)
                /\ UNCHANGED settings
           ELSE LET saved == [t.next EXCEPT !.notificationId = clearedId(t.next)]
                IN  /\ settings' = saved
                    /\ Proceed(t, "save", saved, {},
                               <<"cancelAllReminders returned", "saveReminderSettings">>)
        /\ UNCHANGED <<storeVars, permission, nextId, statusLabel, deleteState,
                       savedCount, saveState, lastOp, prevOp, rem>>

\* requestReminderPermissions: getPermissionsAsync resolves
PersistPermission ==
    \E t \in BagToSet(tasks) :
        /\ At(t, "persist", "permission")
        /\ IF permission = "granted"
           THEN Proceed(t, "schedule", t.next, {}, <<"scheduleDailyReminder">>)
           ELSE Proceed(t, "prompt", t.next, {}, <<>>)
        /\ UNCHANGED <<storeVars, platformVars, screenVars, lastOp, prevOp, rem>>

\* requestReminderPermissions: requestPermissionsAsync resolves
PersistPrompt(answer) ==
    \E t \in BagToSet(tasks) :
        /\ At(t, "persist", "prompt")
        /\ permission' = IF answer THEN "granted" ELSE "denied"
        /\ IF answer
           THEN /\ Proceed(t, "schedule", t.next, {}, <<"scheduleDailyReminder">>)
                /\ UNCHANGED settings
           ELSE LET disabled == deniedSettings(t.next)
                IN  /\ settings' = disabled
                    /\ Proceed(t, "saveDenied", disabled, {}, <<"saveReminderSettings">>)
        /\ UNCHANGED <<storeVars, scheduled, nextId, statusLabel, deleteState,
                       savedCount, saveState, lastOp, prevOp, rem>>

\* scheduleDailyReminder resolves
PersistSchedule ==
    \E t \in BagToSet(tasks) :
        LET fresh == scheduleDailyReminder(scheduled, nextId, timeOf(t.next))
            saved == [t.next EXCEPT !.notificationId = fresh.ret]
        IN  /\ At(t, "persist", "schedule")
            /\ nextId <= MaxIds
            /\ scheduled' = fresh.scheduled
            /\ nextId' = nextId + 1
            /\ settings' = saved
            /\ Proceed(t, "save", saved, {}, <<"saveReminderSettings">>)
            /\ UNCHANGED <<storeVars, permission, statusLabel, deleteState,
                           savedCount, saveState, lastOp, prevOp, rem>>

\* saveReminderSettings resolves
PersistSave ==
    \E t \in BagToSet(tasks) :
        /\ BagIn(t, tasks)
        /\ t.kind = "persist"
        /\ t.pc \in {"save", "saveDenied"}
        /\ storage' = saveReminderSettings(storage, t.next)
        /\ statusLabel' = IF t.pc = "save" THEN "Saved"
                          ELSE "Notifications not allowed"
        /\ Finish(t)
        /\ UNCHANGED <<now, platformVars, settings, deleteState, savedCount, saveState,
                       lastOp, prevOp, rem>>

\* RootLayout reconcile: loadReminderSettings resolves
ReconcileLoad ==
    \E t \in BagToSet(tasks) :
        LET loaded == loadReminderSettings(storage[REMINDER_KEY])
        IN  /\ At(t, "reconcile", "load")
            /\ IF ~loaded.enabled THEN Finish(t)
               ELSE Replace(t, Task("reconcile", "permission", loaded, loaded, {},
                                    t.calls \o <<"reconcileReminderSchedule">>))
            /\ UNCHANGED <<storeVars, platformVars, screenVars, lastOp, prevOp, rem>>

\* reconcileReminderSchedule: hasReminderPermissions resolves
ReconcilePermission ==
    \E t \in BagToSet(tasks) :
        /\ At(t, "reconcile", "permission")
        /\ IF hasReminderPermissions(permission)
           THEN Proceed(t, "list", t.next, {}, <<>>)
           ELSE Finish(t)
        /\ UNCHANGED <<storeVars, platformVars, screenVars, lastOp, prevOp, rem>>

\* reconcileReminderSchedule: getAllScheduledNotificationsAsync resolves
ReconcileList ==
    \E t \in BagToSet(tasks) :
        LET reminders == Reminders(scheduled)
            synced == syncStoredId(t.arg, reminders)
        IN  /\ At(t, "reconcile", "list")
            /\ IF Cardinality(reminders) = 0
               THEN Proceed(t, "schedule", t.next, {}, <<"scheduleDailyReminder">>)
               ELSE IF Cardinality(reminders) = 1
               THEN IF synced.notificationId # t.arg.notificationId
                    THEN Proceed(t, "save", synced, {}, <<"saveReminderSettings">>)
                    ELSE Finish(t)
               ELSE Proceed(t, "relist", t.next, {}, <<"cancelAllReminders">>)
            /\ UNCHANGED <<storeVars, platformVars, screenVars, lastOp, prevOp, rem>>

\* cancelAllReminders within reconcile: the listing resolves
ReconcileRelist ==
    \E t \in BagToSet(tasks) :
        /\ At(t, "reconcile", "relist")
        /\ Proceed(t, "cancel", t.next, Identifiers(Reminders(scheduled)), <<>>)
        /\ UNCHANGED <<storeVars, platformVars, screenVars, lastOp, prevOp, rem>>

\* cancelAllReminders within reconcile: the cancellations resolve
ReconcileCancel ==
    \E t \in BagToSet(tasks) :
        /\ At(t, "reconcile", "cancel")
        /\ scheduled' = {req \in scheduled : req.identifier \notin t.found}
        /\ Proceed(t, "schedule", t.next, {},
                   <<"cancelAllReminders returned", "scheduleDailyReminder">>)
        /\ UNCHANGED <<storeVars, permission, nextId, screenVars, lastOp, prevOp, rem>>

\* scheduleDailyReminder within reconcile resolves; the fresh id differs from
\* the stored one, so the settings are saved
ReconcileSchedule ==
    \E t \in BagToSet(tasks) :
        LET fresh == scheduleDailyReminder(scheduled, nextId, timeOf(t.arg))
            next == [t.arg EXCEPT !.notificationId = fresh.ret]
        IN  /\ At(t, "reconcile", "schedule")
            /\ nextId <= MaxIds
            /\ scheduled' = fresh.scheduled
            /\ nextId' = nextId + 1
            /\ IF next.notificationId # t.arg.notificationId
               THEN Proceed(t, "save", next, {}, <<"saveReminderSettings">>)
               ELSE Finish(t)
            /\ UNCHANGED <<storeVars, permission, screenVars, lastOp, prevOp, rem>>

\* RootLayout reconcile: saveReminderSettings resolves
ReconcileSave ==
    \E t \in BagToSet(tasks) :
        /\ At(t, "reconcile", "save")
        /\ storage' = saveReminderSettings(storage, t.next)
        /\ Finish(t)
        /\ UNCHANGED <<now, platformVars, screenVars, lastOp, prevOp, rem>>

\* What the application finds when it starts
FlowStored ==
    {Absent, RawSettings(SettingsTypes, TRUE, Whole(21), 0, <<MaxIds + 1>>)}

InitFlow ==
    /\ \E raw \in FlowStored :
          storage = [k \in {CHECKIN_KEY, REMINDER_KEY} |->
                        IF k = REMINDER_KEY THEN raw ELSE Absent]
    /\ now = StartTick
    /\ scheduled \in {{}, {Request(MaxIds + 1, LEGACY_TITLE, LEGACY_BODY, REMINDER_KIND)}}
    /\ permission \in {"granted", "undetermined"}
    /\ nextId = 1
    /\ settings = DefaultSettings
    /\ statusLabel = ""
    /\ deleteState = "idle"
    /\ savedCount = 0
    /\ saveState = "idle"
    /\ lastOp = NoOp
    /\ prevOp = Summary(NoOp)
    /\ rem = [NoRun EXCEPT !.op = "start", !.stored = storage[REMINDER_KEY],
                           !.scheduled = scheduled, !.permission = permission]
    /\ tasks = SetToBag({reconcileStart})

NextFlow ==
    \/ FocusLoaded
    \/ ToggleStart
    \/ SlideStart
    \/ PersistList
    \/ PersistCancel
    \/ PersistPermission
    \/ \E answer \in BOOLEAN : PersistPrompt(answer)
    \/ PersistSchedule
    \/ PersistSave
    \/ ReconcileLoad
    \/ ReconcilePermission
    \/ ReconcileList
    \/ ReconcileRelist
    \/ ReconcileCancel
    \/ ReconcileSchedule
    \/ ReconcileSave

SpecFlow == InitFlow /\ [][NextFlow]_vars

----------------------------------------------------------------------------
(* upsertTodayCheckin step by step: a call runs from one await to the next  *)
(* without interruption, and at an await any other call may run             *)

\* upsertTodayCheckin up to its first await: the dateKey and updatedAt are
\* taken from the clock at the call
upsertCalled(values, date, clock) ==
    [kind |-> "upsert", pc |-> "getItem", values |-> values, date |-> date,
     days |-> 0, clock |-> clock, all |-> <<>>, value |-> Absent, ret |-> <<>>,
     lost |-> {}, last |-> FALSE]

\* purgeCheckinsOlderThan(days) up to its first await
purgeCalled(days, clock) ==
    [kind |-> "purge", pc |-> "getItem", values |-> NoValues, date |-> <<>>,
     days |-> days, clock |-> clock, all |-> <<>>, value |-> Absent, ret |-> <<>>,
     lost |-> {}, last |-> FALSE]

\* What setItem stores under the key: the text made from the collection the
\* call read, whatever the key holds by now
setItemValue_merged(t, current) ==
    upsertTodayCheckin(current, t.values, t.date, t.clock).stored

setItemValue(t, current) == t.value

UpsertCalled(values, date) ==
    /\ Len(tasks) < MaxFlows
    /\ tasks' = Append(tasks, upsertCalled(values, date, now))
    /\ UNCHANGED <<storeVars, platformVars, screenVars, lastOp, prevOp, rem>>

\* getItem resolves: the collection is parsed, the record is put in it and
\* setItem is called with its text
UpsertLoaded ==
    \E i \in DOMAIN tasks :
        LET t == tasks[i]
            r == upsertTodayCheckin(storage[CHECKIN_KEY], t.values, t.date, t.clock)
        IN  /\ t.kind = "upsert"
            /\ t.pc = "getItem"
            /\ tasks' = [tasks EXCEPT ![i] =
                            [t EXCEPT !.pc = "setItem",
                                      !.all = loadAllCheckins(storage[CHECKIN_KEY]),
                                      !.value = r.stored, !.ret = <<r.ret>>]]
            /\ UNCHANGED <<storeVars, platformVars, screenVars, lastOp, prevOp, rem>>

\* setItem takes effect and the call returns.  A call that has read and not
\* yet written notes the record written meanwhile (lost), and the call that
\* wrote last is marked (last)
UpsertStored ==
    \E i \in DOMAIN tasks :
        LET t == tasks[i]
        IN  /\ t.kind = "upsert"
            /\ t.pc = "setItem"
            /\ storage' = [storage EXCEPT ![CHECKIN_KEY] = setItemValue(t, storage[CHECKIN_KEY])]
            /\ tasks' = [j \in DOMAIN tasks |->
                            IF j = i THEN [t EXCEPT !.pc = "done", !.last = TRUE]
                            ELSE [tasks[j] EXCEPT
                                     !.last = FALSE,
                                     !.lost = IF tasks[j].pc = "setItem"
                                              THEN @ \cup {t.ret[1]} ELSE @]]
            /\ UNCHANGED <<now, platformVars, screenVars, lastOp, prevOp, rem>>

InitRace ==
    /\ storage = [k \in {CHECKIN_KEY, REMINDER_KEY} |-> Absent]
    /\ now = StartTick
    /\ scheduled = {}
    /\ permission = "undetermined"
    /\ nextId = 1
    /\ settings = DefaultSettings
    /\ statusLabel = ""
    /\ deleteState = "idle"
    /\ savedCount = 0
    /\ saveState = "idle"
    /\ lastOp = NoOp
    /\ prevOp = Summary(NoOp)
    /\ rem = NoRun
    /\ tasks = <<>>

NextRace ==
    \/ \E v \in Values, d \in DateArgs : UpsertCalled(v, d)
    \/ UpsertLoaded
    \/ UpsertStored
    \/ Tick

SpecRace == InitRace /\ [][NextRace]_vars

----------------------------------------------------------------------------
(* purgeCheckinsOlderThan step by step, next to upsertTodayCheckin, on a    *)
(* store that holds a record older than every window                        *)

PurgeCalled(days) ==
    /\ Len(tasks) < MaxFlows
    /\ tasks' = Append(tasks, purgeCalled(days, now))
    /\ UNCHANGED <<storeVars, platformVars, screenVars, lastOp, prevOp, rem>>

\* getItem resolves: the cutoff is taken from the clock now, and either
\* nothing is to be removed and the call returns, or saveAllCheckins calls
\* setItem with the text of the records kept
PurgeLoaded ==
    \E i \in DOMAIN tasks :
        LET t == tasks[i]
            r == purgeCheckinsOlderThan(storage[CHECKIN_KEY], t.days, now)
        IN  /\ t.kind = "purge"
            /\ t.pc = "getItem"
            /\ tasks' = [tasks EXCEPT ![i] =
                            [t EXCEPT !.pc = IF r.wrote THEN "setItem" ELSE "done",
                                      !.clock = now,
                                      !.all = loadAllCheckins(storage[CHECKIN_KEY]),
                                      !.value = r.stored]]
            /\ UNCHANGED <<storeVars, platformVars, screenVars, lastOp, prevOp, rem>>

\* setItem takes effect and the purge returns
PurgeStored ==
    \E i \in DOMAIN tasks :
        LET t == tasks[i]
        IN  /\ t.kind = "purge"
            /\ t.pc = "setItem"
            /\ storage' = [storage EXCEPT ![CHECKIN_KEY] = setItemValue(t, storage[CHECKIN_KEY])]
            /\ tasks' = [j \in DOMAIN tasks |->
                            IF j = i THEN [t EXCEPT !.pc = "done", !.last = TRUE]
                            ELSE [tasks[j] EXCEPT !.last = FALSE]]
            /\ UNCHANGED <<now, platformVars, screenVars, lastOp, prevOp, rem>>

\* A record dated one day before the widest window
OldRecord == RawObject(StartDay - MaxDays, Values2, ObjectTypes)

InitPurgeRace ==
    /\ storage = [k \in {CHECKIN_KEY, REMINDER_KEY} |->
                     IF k = CHECKIN_KEY
                     THEN [kind |-> "array", json |-> <<OldRecord>>]
                     ELSE Absent]
    /\ now = StartTick
    /\ scheduled = {}
    /\ permission = "undetermined"
    /\ nextId = 1
    /\ settings = DefaultSettings
    /\ statusLabel = ""
    /\ deleteState = "idle"
    /\ savedCount = 0
    /\ saveState = "idle"
    /\ lastOp = NoOp
    /\ prevOp = Summary(NoOp)
    /\ rem = NoRun
    /\ tasks = <<>>

NextPurgeRace ==
    \/ \E v \in Values, d \in DateArgs : UpsertCalled(v, d)
    \/ UpsertLoaded
    \/ UpsertStored
    \/ \E n \in DaysArgs : PurgeCalled(n)
    \/ PurgeLoaded
    \/ PurgeStored
    \/ Tick

SpecPurgeRace == InitPurgeRace /\ [][NextPurgeRace]_vars

----------------------------------------------------------------------------
(* The loads the screens and RootLayout start in effects, step by step,     *)
(* with the cleanup of the effect (cancelled = true) at any await           *)

\* purgeCheckinsOlderThan(90) of the screens, in the model's days
RetentionDays == MaxDays

CheckinLoads == {"loadInitial", "refreshCount", "summaryLoad"}

\* An effect's async function up to its first await
loadStarted(kind) ==
    [kind |-> kind,
     pc |-> IF kind \in CheckinLoads THEN "purge" ELSE "load",
     cancelled |-> FALSE, cancelledAt |-> "", value |-> Absent,
     loaded |-> DefaultSettings, applied |-> FALSE, wrote |-> FALSE]

\* if (cancelled) return; before the state update
appliesUpdate_always(t) == TRUE

appliesUpdate(t) == ~t.cancelled

\* The await after the purge: loadInitial reads today's record first
afterPurge(kind) == IF kind = "loadInitial" THEN "forDate" ELSE "loadAll"

Step(i, t) == tasks' = [tasks EXCEPT ![i] = t]

\* An effect runs its function; of the flows of the model one is left to the
\* cleanups
LoadStarts(kind) ==
    /\ Len(tasks) < MaxFlows - 1
    /\ kind = "reconcile" => \A i \in DOMAIN tasks : tasks[i].kind # "reconcile"
    /\ tasks' = Append(tasks, loadStarted(kind))
    /\ UNCHANGED <<storeVars, platformVars, screenVars, lastOp, prevOp, rem>>

\* The cleanup of the effect runs while its function is suspended
Cancel ==
    \E i \in DOMAIN tasks :
        /\ tasks[i].pc # "done"
        /\ ~tasks[i].cancelled
        /\ Step(i, [tasks[i] EXCEPT !.cancelled = TRUE, !.cancelledAt = tasks[i].pc])
        /\ UNCHANGED <<storeVars, platformVars, screenVars, lastOp, prevOp, rem>>

\* purgeCheckinsOlderThan: the read resolves and, when records are to be
\* removed, saveAllCheckins calls setItem
LoadPurgeRead ==
    \E i \in DOMAIN tasks :
        LET t == tasks[i]
            r == purgeCheckinsOlderThan(storage[CHECKIN_KEY], RetentionDays, now)
        IN  /\ t.pc = "purge"
            /\ Step(i, [t EXCEPT !.pc = IF r.wrote THEN "purgeWrite" ELSE afterPurge(t.kind),
                                 !.value = r.stored])
            /\ UNCHANGED <<storeVars, platformVars, screenVars, lastOp, prevOp, rem>>

\* purgeCheckinsOlderThan: setItem takes effect
LoadPurgeWrite ==
    \E i \in DOMAIN tasks :
        LET t == tasks[i]
        IN  /\ t.pc = "purgeWrite"
            /\ storage' = [storage EXCEPT ![CHECKIN_KEY] = t.value]
            /\ Step(i, [t EXCEPT !.pc = afterPurge(t.kind), !.wrote = TRUE])
            /\ UNCHANGED <<now, platformVars, screenVars, lastOp, prevOp, rem>>

\* loadInitial: loadCheckinForDate resolves
LoadForDate ==
    \E i \in DOMAIN tasks :
        /\ tasks[i].pc = "forDate"
        /\ Step(i, [tasks[i] EXCEPT !.pc = "loadAll"])
        /\ UNCHANGED <<storeVars, platformVars, screenVars, lastOp, prevOp, rem>>

\* loadAllCheckins resolves: the screen's state is set unless the effect was
\* cleaned up (the Summary screen's list is not a variable of the model)
LoadAllResolves ==
    \E i \in DOMAIN tasks :
        LET t == tasks[i]
            all == loadAllCheckins(storage[CHECKIN_KEY])
        IN  /\ t.pc = "loadAll"
            /\ IF appliesUpdate(t)
               THEN /\ savedCount' = IF t.kind = "summaryLoad" THEN savedCount ELSE Len(all)
                    /\ Step(i, [t EXCEPT !.pc = "done", !.applied = TRUE])
               ELSE /\ UNCHANGED savedCount
                    /\ Step(i, [t EXCEPT !.pc = "done"])
            /\ UNCHANGED <<storeVars, platformVars, settings, statusLabel, deleteState,
                           saveState, lastOp, prevOp, rem>>

\* SettingsScreen load: loadReminderSettings resolves
LoadSettingsResolves ==
    \E i \in DOMAIN tasks :
        LET t == tasks[i]
        IN  /\ t.kind = "settingsLoad"
            /\ t.pc = "load"
            /\ IF appliesUpdate(t)
               THEN /\ settings' = loadReminderSettings(storage[REMINDER_KEY])
                    /\ Step(i, [t EXCEPT !.pc = "done", !.applied = TRUE])
               ELSE /\ UNCHANGED settings
                    /\ Step(i, [t EXCEPT !.pc = "done"])
            /\ UNCHANGED <<storeVars, platformVars, statusLabel, deleteState, savedCount,
                           saveState, lastOp, prevOp, rem>>

\* RootLayout reconcile: loadReminderSettings resolves
StartLoaded ==
    \E i \in DOMAIN tasks :
        LET t == tasks[i]
            loaded == loadReminderSettings(storage[REMINDER_KEY])
        IN  /\ t.kind = "reconcile"
            /\ t.pc = "load"
            /\ IF t.cancelled \/ ~loaded.enabled
               THEN Step(i, [t EXCEPT !.pc = "done"])
               ELSE Step(i, [t EXCEPT !.pc = "reconcile", !.loaded = loaded])
            /\ UNCHANGED <<storeVars, platformVars, screenVars, lastOp, prevOp, rem>>

\* RootLayout reconcile: reconcileReminderSchedule resolves, and the settings
\* are saved when the effect was not cleaned up and the id changed
StartReconciled ==
    \E i \in DOMAIN tasks :
        LET t == tasks[i]
            r == reconcileReminderSchedule(t.loaded, scheduled, permission, nextId,
                                           NoFailure)
        IN  /\ t.kind = "reconcile"
            /\ t.pc = "reconcile"
            /\ nextId <= MaxIds
            /\ scheduled' = r.scheduled
            /\ nextId' = r.nextId
            /\ IF appliesUpdate(t) /\ r.ret.notificationId # t.loaded.notificationId
               THEN Step(i, [t EXCEPT !.pc = "save",
                                      !.value = [kind |-> "object",
                                                 json |-> <<stringifySettings(r.ret)>>]])
               ELSE Step(i, [t EXCEPT !.pc = "done"])
            /\ UNCHANGED <<storeVars, permission, screenVars, lastOp, prevOp, rem>>

\* RootLayout reconcile: saveReminderSettings resolves
StartSaved ==
    \E i \in DOMAIN tasks :
        LET t == tasks[i]
        IN  /\ t.pc = "save"
            /\ storage' = [storage EXCEPT ![REMINDER_KEY] = t.value]
            /\ Step(i, [t EXCEPT !.pc = "done", !.wrote = TRUE])
            /\ UNCHANGED <<now, platformVars, screenVars, lastOp, prevOp, rem>>

\* The store is empty or holds today's record and one older than the window;
\* the reminder key and the platform are as in the flows above
InitLoads ==
    /\ \E raw \in FlowStored, old \in BOOLEAN :
          storage = [k \in {CHECKIN_KEY, REMINDER_KEY} |->
                        IF k = REMINDER_KEY THEN raw
                        ELSE IF old
                        THEN [kind |-> "array",
                              json |-> <<RawObject(StartDay - RetentionDays, Values2,
                                                   ObjectTypes),
                                         RawObject(StartDay, Values1, ObjectTypes)>>]
                        ELSE Absent]
    /\ now = StartTick
    /\ scheduled \in {{}, {Request(MaxIds + 1, LEGACY_TITLE, LEGACY_BODY, REMINDER_KIND)}}
    /\ permission \in {"granted", "undetermined"}
    /\ nextId = 1
    /\ settings = DefaultSettings
    /\ statusLabel = ""
    /\ deleteState = "idle"
    /\ savedCount = 0
    /\ saveState = "idle"
    /\ lastOp = NoOp
    /\ prevOp = Summary(NoOp)
    /\ rem = NoRun
    /\ tasks = <<>>

NextLoads ==
    \/ \E kind \in CheckinLoads \cup {"settingsLoad", "reconcile"} : LoadStarts(kind)
    \/ Cancel
    \/ LoadPurgeRead
    \/ LoadPurgeWrite
    \/ LoadForDate
    \/ LoadAllResolves
    \/ LoadSettingsResolves
    \/ StartLoaded
    \/ StartReconciled
    \/ StartSaved

\* A step of a call that was started, past the first read of a purge
Resolves ==
    \/ LoadPurgeWrite
    \/ LoadForDate
    \/ LoadAllResolves
    \/ LoadSettingsResolves
    \/ StartLoaded
    \/ StartReconciled
    \/ StartSaved

\* A storage or platform call that was started resolves; nothing is assumed
\* of the first read of a purge, on which no started write depends
SpecLoads == InitLoads /\ [][NextLoads]_vars /\ WF_vars(Resolves)

----------------------------------------------------------------------------
(* Properties of the check-in store *)

Stored == storage[CHECKIN_KEY]
Loaded == loadAllCheckins(Stored)
Before == loadAllCheckins(lastOp.pre[CHECKIN_KEY])

\* The calendar days the model's dateKeys can name
KnownDays == (StartDay - 2)..(StartDay + MaxTicks + 1)
KeyOfDay(n) == getLocalDateKey(n * TicksPerDay)
DayOfKey(key) == CHOOSE n \in KnownDays : KeyOfDay(n) = key

WithKey(s, key) == SelectSeq(s, LAMBDA c : c.dateKey = key)
WithoutKey(s, key) == SelectSeq(s, LAMBDA c : c.dateKey # key)

SameValues(c, values) ==
    c.energy = values.energy /\ c.mood = values.mood /\ c.focus = values.focus

\* The dateKey that the last upsert was called for
UpsertKey ==
    getLocalDateKey(IF lastOp.date = <<>> THEN lastOp.time ELSE lastOp.date[1])

\* C1: the persisted collection never holds two records with the same dateKey
C1_OneRecordPerDateKey ==
    \A i, j \in 1..Len(Stored.json) :
        i # j => Stored.json[i].dateKey # Stored.json[j].dateKey

C1_Witness ==
    /\ lastOp.op = "upsert"
    /\ WithKey(Before, lastOp.ret.dateKey) # <<>>
    /\ Len(Before) >= 2
    /\ Len(Stored.json) = Len(Before)

\* C2: after upsertTodayCheckin, loadCheckinForDate(getLocalDateKey(date))
\* returns a record with the call's three values, that dateKey, and an
\* updatedAt not earlier than the time of the call
C2_UpsertThenLoad ==
    lastOp.op = "upsert" =>
        LET found == loadCheckinForDate(Stored, UpsertKey)
        IN  /\ found # <<>>
            /\ SameValues(found[1], lastOp.values)
            /\ found[1].dateKey = UpsertKey
            /\ found[1].updatedAt >= lastOp.time

C2_Witness ==
    /\ lastOp.op = "upsert"
    /\ lastOp.date # <<>>
    /\ WithKey(Before, UpsertKey) # <<>>
    /\ ~SameValues(WithKey(Before, UpsertKey)[1], lastOp.values)
    /\ loadCheckinForDate(Stored, UpsertKey) # <<>>

\* C3: two upserts in a row for the same date leave exactly one record for
\* that dateKey in loadAllCheckins(), carrying the second call's values
C3_UpsertTwice ==
    (lastOp.op = "upsert" /\ prevOp.op = "upsert" /\ prevOp.dateKey = lastOp.ret.dateKey) =>
        /\ Len(WithKey(Loaded, lastOp.ret.dateKey)) = 1
        /\ SameValues(WithKey(Loaded, lastOp.ret.dateKey)[1], lastOp.values)

C3_Witness ==
    /\ lastOp.op = "upsert"
    /\ prevOp.op = "upsert"
    /\ prevOp.dateKey = lastOp.ret.dateKey
    /\ ~SameValues(WithKey(Before, lastOp.ret.dateKey)[1], lastOp.values)
    /\ Len(Loaded) >= 2

\* C4: upsertTodayCheckin leaves the records of every other dateKey as they
\* were, and the number of records grows by one exactly when the dateKey was
\* absent
C4_UpsertFrame ==
    lastOp.op = "upsert" =>
        /\ WithoutKey(Loaded, lastOp.ret.dateKey) = WithoutKey(Before, lastOp.ret.dateKey)
        /\ Len(Loaded) =
              Len(Before) + (IF WithKey(Before, lastOp.ret.dateKey) = <<>> THEN 1 ELSE 0)

C4_Witness ==
    /\ lastOp.op = "upsert"
    /\ WithoutKey(Before, lastOp.ret.dateKey) # <<>>
    /\ WithKey(Before, lastOp.ret.dateKey) # <<>>
    /\ Loaded # Before

C4_WitnessAbsent ==
    /\ lastOp.op = "upsert"
    /\ WithoutKey(Before, lastOp.ret.dateKey) # <<>>
    /\ WithKey(Before, lastOp.ret.dateKey) = <<>>

\* What a purge with a retention window of `window` days must leave behind
PurgeKeeps(window) ==
    LET cutoffDay == LocalDay(lastOp.time) - (window - 1)
        inWindow(c) == DayOfKey(c.dateKey) >= cutoffDay
    IN  /\ Loaded = SelectSeq(Before, inWindow)
        /\ lastOp.ret = Len(Before) - Len(SelectSeq(Before, inWindow))

\* C5 as stated: purgeCheckinsOlderThan(days) removes all and only the records
\* dated strictly before today minus (days - 1) days, and returns their number
C5_PurgeCutoff_AsStated ==
    lastOp.op = "purge" => PurgeKeeps(lastOp.days)

\* C5 amended: the window is max(1, days) days: all and only the records dated
\* strictly before today minus (max(1, days) - 1) days are removed, the others
\* are returned unchanged, and the returned number is the number removed
C5_PurgeCutoff ==
    lastOp.op = "purge" => PurgeKeeps(IF lastOp.days >= 1 THEN lastOp.days ELSE 1)

C5_Witness ==
    /\ lastOp.op = "purge"
    /\ lastOp.ret >= 1
    /\ Loaded # <<>>
    /\ lastOp.days >= 2

\* C6: a purge that removes nothing leaves the stored value exactly as it was
\* and writes nothing; a purge right after a purge with the same window on the
\* same day returns 0 and writes nothing
C6_PurgeNoWrite ==
    lastOp.op = "purge" =>
        /\ lastOp.ret = 0 => (~lastOp.wrote /\ Stored = lastOp.pre[CHECKIN_KEY])
        /\ (prevOp.op = "purge" /\ prevOp.days = lastOp.days
               /\ prevOp.day = LocalDay(lastOp.time)) =>
              (lastOp.ret = 0 /\ ~lastOp.wrote /\ Stored = lastOp.pre[CHECKIN_KEY])

C6_Witness ==
    /\ lastOp.op = "purge"
    /\ prevOp.op = "purge"
    /\ prevOp.days = lastOp.days
    /\ prevOp.day = LocalDay(lastOp.time)
    /\ lastOp.ret = 0
    /\ Len(Before) >= 1
    /\ Len(Before) < 2

C6_WitnessUnsorted ==
    /\ lastOp.op = "purge"
    /\ lastOp.ret = 0
    /\ Len(Stored.json) >= 2
    /\ localeCompare(Stored.json[1].dateKey, Stored.json[2].dateKey) > 0

SortedByDateKey(s) ==
    \A i, j \in 1..Len(s) : i < j => localeCompare(s[i].dateKey, s[j].dateKey) <= 0

\* C7: the collection held in storage is sorted by ascending dateKey
C7_StoredSorted == SortedByDateKey(Stored.json)

\* C8: the list returned by loadAllCheckins() is sorted by ascending dateKey,
\* whatever the order of the records in storage
C8_LoadedSorted == SortedByDateKey(Loaded)

C8_Witness ==
    /\ lastOp.op = "load"
    /\ Len(lastOp.ret) >= 2
    /\ ~SortedByDateKey(SelectSeq(Stored.json, LAMBDA item : item.ty = ObjectTypes))
    /\ lastOp.ret = Loaded

\* The well-formed elements: an object with a string dateKey and numeric
\* energy, mood, focus and updatedAt
WellFormed(item) ==
    /\ item.shape = "object"
    /\ item.ty = ObjectTypes

Count(s, x) == Cardinality({i \in 1..Len(s) : s[i] = x})

\* C9: loadAllCheckins() writes nothing; it returns the empty list when the
\* key is absent, unparseable or not an array, and otherwise exactly the
\* well-formed stored elements
C9_LoadValidates ==
    lastOp.op = "load" =>
        LET raw == lastOp.pre[CHECKIN_KEY]
            good == SelectSeq(raw.json, WellFormed)
        IN  /\ ~lastOp.wrote
            /\ Stored = raw
            /\ raw.kind # "array" => lastOp.ret = <<>>
            /\ raw.kind = "array" =>
                  /\ Len(lastOp.ret) = Len(good)
                  /\ \A i \in 1..Len(good) :
                        Count(lastOp.ret, parseCheckin(good[i])) =
                            Count(good, good[i])

C9_Witness ==
    /\ lastOp.op = "load"
    /\ Stored.kind = "array"
    /\ Len(lastOp.ret) = 1
    /\ Len(Stored.json) = 2

C9_WitnessNotArray ==
    /\ lastOp.op = "load"
    /\ Stored.kind \in {"garbage", "object"}

\* Every dateKey the model can name
KnownKeys == {KeyOfDay(n) : n \in KnownDays}

\* C10: after clearAllCheckins(), loadAllCheckins() returns the empty list and
\* loadCheckinForDate returns null for every dateKey, while the stored reminder
\* settings and the platform's scheduled notifications are as they were
C10_ClearFrame ==
    lastOp.op = "clear" =>
        /\ Loaded = <<>>
        /\ \A key \in KnownKeys : loadCheckinForDate(Stored, key) = <<>>
        /\ storage[REMINDER_KEY] = lastOp.pre[REMINDER_KEY]
        /\ scheduled = lastOp.preScheduled

C10_Witness ==
    /\ lastOp.op = "clear"
    /\ Before # <<>>
    /\ storage[REMINDER_KEY].kind = "object"
    /\ storage[REMINDER_KEY].json[1].enabled
    /\ scheduled # {}

----------------------------------------------------------------------------
(* Properties of the reminder scheduler *)

\* The number of platform schedules that match the application's signature
Matching(sched) == Cardinality(Reminders(sched))

\* The last run was reconcileReminderSchedule with reminders enabled and
\* permission granted, and no platform call of it failed
ReconciledClean ==
    /\ rem.op = "reconcile"
    /\ rem.arg.enabled
    /\ permission = "granted"
    /\ rem.fail = NoFailure

\* The last two runs were reconcileReminderSchedule, no platform call failed
\* in either, and the second was given the settings the first returned
ReconciledTwice ==
    /\ rem.op = "reconcile"
    /\ rem.prev.op = "reconcile"
    /\ rem.prev.clean
    /\ rem.fail = NoFailure
    /\ rem.arg = rem.prev.ret

\* C11: running reconcileReminderSchedule a second time on the settings the
\* first run returned, nothing else having changed and no platform call
\* failing, returns those settings again and leaves the platform's schedules
\* as the first run left them; neither run raises the number of matching
\* schedules above 1.
C11_ReconcileIdempotent ==
    ReconciledTwice =>
        /\ ~rem.threw
        /\ rem.ret = rem.arg
        /\ scheduled = rem.scheduled
        /\ Matching(rem.scheduled) <= Max(1, rem.prev.count)
        /\ Matching(scheduled) <= Max(1, Matching(rem.scheduled))

C11_Witness ==
    /\ ReconciledTwice
    /\ rem.arg.enabled
    /\ permission = "granted"
    /\ rem.prev.count >= 2
    /\ Matching(scheduled) = 1

C13_ExactlyOne ==
    ReconciledClean =>
        /\ ~rem.threw
        /\ \E req \in scheduled :
              /\ Reminders(scheduled) = {req}
              /\ rem.ret = [rem.arg EXCEPT !.notificationId = <<req.identifier>>]
              /\ CASE Matching(rem.scheduled) = 0 ->
                        /\ scheduled = rem.scheduled \cup {req}
                        /\ req.identifier \notin Identifiers(rem.scheduled)
                   [] Matching(rem.scheduled) = 1 -> scheduled = rem.scheduled
                   [] OTHER ->
                        /\ scheduled = (rem.scheduled \ Reminders(rem.scheduled)) \cup {req}
                        /\ req.identifier \notin Identifiers(rem.scheduled)

C13_Witness ==
    /\ ReconciledClean
    /\ Matching(rem.scheduled) = 3
    /\ Matching(scheduled) = 1
    /\ rem.ret.notificationId = <<nextId - 1>>

\* The last handler of the settings screen ran the persist flow
Persisted == rem.op \in {"switch", "slide"}

\* The settings the handler passed to persist
Requested ==
    IF rem.op = "switch" THEN [rem.arg EXCEPT !.enabled = ~rem.arg.enabled]
    ELSE rem.arg

StoredSettings == storage[REMINDER_KEY]

\* The flow asked for permission and was refused
PermissionDenied ==
    /\ Persisted
    /\ Requested.enabled
    /\ ~rem.fail.permission
    /\ rem.permission # "granted"
    /\ ~rem.answer

\* A step of the flow threw: the permission request, the scheduling that
\* follows a grant, or the storage write that ends every branch
StepThrew ==
    /\ Persisted
    /\ \/ Requested.enabled /\ rem.fail.permission
       \/ /\ Requested.enabled
          /\ rem.permission = "granted" \/ rem.answer
          /\ rem.fail.schedule
       \/ rem.fail.save

C18_SavedMatchesPlatform ==
    (Persisted /\ rem.fail = NoFailure /\ statusLabel = "Saved") =>
        LET saved == loadReminderSettings(StoredSettings)
        IN  /\ StoredSettings = [kind |-> "object", json |-> <<stringifySettings(saved)>>]
            /\ saved.enabled = Requested.enabled
            /\ IF saved.enabled
               THEN \E req \in scheduled :
                       /\ Reminders(scheduled) = {req}
                       /\ saved.notificationId = <<req.identifier>>
               ELSE /\ Matching(scheduled) = 0
                    /\ saved.notificationId = <<>>

C18_Witness ==
    /\ Persisted
    /\ rem.fail = NoFailure
    /\ statusLabel = "Saved"
    /\ Matching(rem.scheduled) = 2
    /\ Matching(scheduled) = 1
    /\ settings.enabled

\* C19: if a step of the persist flow throws (the permission request, the
\* scheduling or the storage write), the status shown is 'Error' and the
\* stored reminder settings are those stored before the flow began.
C19_ErrorKeepsStored ==
    /\ StepThrew => statusLabel = "Error"
    /\ (Persisted /\ statusLabel = "Error") =>
          /\ StepThrew
          /\ StoredSettings = rem.stored

C19_Witness ==
    /\ StepThrew
    /\ rem.fail.save
    /\ statusLabel = "Error"
    /\ rem.stored.kind = "object"
    /\ settings # loadReminderSettings(StoredSettings)

\* C20: loadReminderSettings returns {enabled: false, hour: 20, minute: 0}
\* without notificationId when nothing is stored or the stored text is not
\* JSON, and returns settings within range, without throwing, for every
\* stored string.
C20_LoadDefaults ==
    rem.op = "load" =>
        /\ rem.stored.kind \in {"absent", "empty", "garbage"} =>
              rem.ret = [enabled |-> FALSE, hour |-> 20, minute |-> 0,
                         notificationId |-> <<>>]
        /\ ~rem.threw
        /\ rem.ret.enabled \in BOOLEAN
        /\ rem.ret.hour \in 0..23
        /\ rem.ret.minute \in 0..59
        /\ rem.ret = loadReminderSettings(rem.stored)

C20_Witness ==
    /\ rem.op = "load"
    /\ rem.stored.kind = "garbage"
    /\ rem.ret = DefaultSettings
    /\ settings = DefaultSettings

\* No reminder flow is suspended at an await
Quiescent == \A t \in BagToSet(tasks) : t.pc = "done"

\* The persist flows that have not returned
PersistTasks == {t \in BagToSet(tasks) : t.kind = "persist" /\ t.pc # "done"}

\* The position of the first occurrence of call in the calls of a flow,
\* one past the end when the flow has not made it
FirstCall(calls, call) ==
    IF \E k \in 1..Len(calls) : calls[k] = call
    THEN CHOOSE k \in 1..Len(calls) :
            /\ calls[k] = call
            /\ \A j \in 1..(k - 1) : calls[j] # call
    ELSE Len(calls) + 1

\* C14: starting from at most one matching schedule with permission granted
\* and no platform failure, at most one schedule matching the application's
\* signature exists whenever no reminder flow is in flight, however the
\* persist flows of the settings screen and the reconcile of the application
\* start interleave.
C14_AtMostOneWhenQuiescent ==
    (Quiescent /\ rem.permission = "granted" /\ Matching(rem.scheduled) <= 1)
        => Matching(scheduled) <= 1

\* C15: every reminder-settings record the application writes, in any branch
\* of the persist flow or in the reconcile of the application start, has no
\* notificationId when its enabled is false.  The application starts with
\* nothing stored or with enabled settings, so every other record found in
\* storage is one it wrote.
C15_DisabledHasNoId ==
    (StoredSettings # rem.stored \/ StoredSettings.kind = "object") =>
        LET written == StoredSettings.json[1]
        IN  /\ StoredSettings.kind = "object"
            /\ written.ty.enabled = "boolean"
            /\ ~written.enabled =>
                  /\ written.ty.notificationId = "undefined"
                  /\ written.notificationId = <<>>

C15_Witness ==
    /\ StoredSettings # rem.stored
    /\ StoredSettings.kind = "object"
    /\ ~StoredSettings.json[1].enabled
    /\ rem.stored.kind = "object"
    /\ rem.stored.json[1].enabled
    /\ statusLabel = "Notifications not allowed"

\* C16: in every persist flow, for the enabled and for the disabled new
\* state, cancelAllReminders is called first and has returned before the
\* flow requests permission, schedules or saves.
C16_CancelFirst ==
    \A t \in PersistTasks :
        LET calls == t.calls
            returned == FirstCall(calls, "cancelAllReminders returned")
        IN  /\ calls[1] = "cancelAllReminders"
            /\ \A k \in 1..Len(calls) :
                  calls[k] \in {"requestReminderPermissions", "scheduleDailyReminder",
                                "saveReminderSettings"} => returned < k
            /\ t.pc \in {"permission", "prompt", "schedule", "save",
                                "saveDenied"} => returned <= Len(calls)

C16_Witness ==
    /\ \E t \in PersistTasks :
          /\ t.pc = "save"
          /\ t.calls = <<"cancelAllReminders", "cancelAllReminders returned",
                                "requestReminderPermissions", "scheduleDailyReminder",
                                "saveReminderSettings">>
    /\ \E t \in PersistTasks :
          /\ t.pc = "save"
          /\ t.calls = <<"cancelAllReminders", "cancelAllReminders returned",
                                "saveReminderSettings">>

----------------------------------------------------------------------------
(* Ranges of the loaded hour and minute *)

\* whole is the number v with its fraction dropped, brought into 0..max
TruncatedAndClamped(v, whole, max) ==
    /\ v < 0 => whole = 0
    /\ v >= Whole(max + 1) => whole = max
    /\ (0 <= v /\ v < Whole(max + 1)) => (Whole(whole) <= v /\ v < Whole(whole + 1))

\* C21: for every stored settings object loadReminderSettings returns a whole
\* hour in 0..23 and a whole minute in 0..59: a stored number is truncated
\* toward zero and then clamped, never rounded, and a field that is not a
\* number becomes 20 (hour) or 0 (minute).
C21_TruncateThenClamp ==
    (rem.op = "load" /\ rem.stored.kind = "object") =>
        LET parsed == rem.stored.json[1]
        IN  /\ rem.ret.hour \in 0..23
            /\ rem.ret.minute \in 0..59
            /\ parsed.ty.hour = "number" =>
                  TruncatedAndClamped(parsed.hour, rem.ret.hour, 23)
            /\ parsed.ty.minute = "number" =>
                  TruncatedAndClamped(parsed.minute, rem.ret.minute, 59)
            /\ parsed.ty.hour # "number" => rem.ret.hour = 20
            /\ parsed.ty.minute # "number" => rem.ret.minute = 0

\* A stored 21 + (Scale-1)/Scale o'clock is loaded as 21, where rounding
\* would give 22
C21_Witness ==
    /\ rem.op = "load"
    /\ rem.stored.kind = "object"
    /\ rem.stored.json[1].ty.hour = "number"
    /\ rem.stored.json[1].hour = Whole(21) + Scale - 1
    /\ rem.ret.hour = 21
    /\ rem.ret.minute = 30
    /\ settings = rem.ret

----------------------------------------------------------------------------
(* cancelAllReminders                                                       *)

\* The requests matching the application's signature that the last call found
\* on the platform and that are no longer there
CancelledByCall == {req \in Reminders(rem.scheduled) : req \notin scheduled}

\* C22: when the listing succeeds, the number cancelAllReminders returns is
\* the number of matching schedules the call cancelled (present before it,
\* absent after it).
C22_CountIsCancelled ==
    (rem.op = "cancelAll" /\ ~rem.fail.list) =>
        rem.ret.count = Cardinality(CancelledByCall)

\* C23: when the listing fails, cancelAllReminders cancels everything that is
\* scheduled and returns -1, or returns 0 when that blanket cancel fails too;
\* it never throws, and it returns -1 on no other path.
C23_Fallback ==
    rem.op = "cancelAll" =>
        /\ ~rem.threw
        /\ (rem.fail.list /\ ~rem.fail.blanket) =>
              (rem.ret.count = -1 /\ scheduled = {})
        /\ (rem.fail.list /\ rem.fail.blanket) =>
              (rem.ret.count = 0 /\ scheduled = rem.scheduled)
        /\ rem.ret.count = -1 => rem.fail.list

\* The listing failed with a matching and a foreign request scheduled: both
\* are gone and -1 is returned
C23_Witness ==
    /\ rem.op = "cancelAll"
    /\ rem.fail.list
    /\ Reminders(rem.scheduled) # {}
    /\ rem.scheduled \ Reminders(rem.scheduled) # {}
    /\ scheduled = {}
    /\ rem.ret.count = -1

\* C24: a failing cancellation does not block the others: a cancel is tried
\* for every matching schedule, every matching schedule whose cancel succeeds
\* is gone afterwards, no schedule outside the application's signature is
\* cancelled on this path, and the call does not throw.
C24_BestEffort ==
    (rem.op = "cancelAll" /\ ~rem.fail.list) =>
        /\ ~rem.threw
        /\ rem.ret.attempted = Identifiers(Reminders(rem.scheduled))
        /\ \A req \in Reminders(rem.scheduled) :
              req.identifier \notin rem.fail.cancel => req \notin scheduled
        /\ \A req \in rem.scheduled \ Reminders(rem.scheduled) : req \in scheduled
        /\ scheduled \subseteq rem.scheduled

\* Two matching requests and a foreign one, the cancellation of one matching
\* request failed: the other is gone, the failing and the foreign one stay
C24_Witness ==
    /\ rem.op = "cancelAll"
    /\ ~rem.fail.list
    /\ Cardinality(Reminders(rem.scheduled)) = 2
    /\ \E req \in Reminders(rem.scheduled) : req.identifier \in rem.fail.cancel
    /\ Cardinality(Reminders(scheduled)) = 1
    /\ Cardinality(CancelledByCall) = 1
    /\ scheduled \ Reminders(scheduled) # {}

----------------------------------------------------------------------------
(* Retention *)

\* C25: after purgeCheckinsOlderThan(days) returns, loadAllCheckins() holds at
\* most days records (90 for the window of 90 days the screens ask for), in
\* every store reached by upsertTodayCheckin with any date argument and purge.
C25_PurgeBoundsVolume ==
    (lastOp.op = "purge" /\ lastOp.days >= 1) => Len(Loaded) <= lastOp.days

----------------------------------------------------------------------------
(* Overlap of the flows that write one key *)

\* The flows that read and write the reminder key and have not returned, with
\* the number of each
InFlight == [t \in {u \in BagToSet(tasks) : u.pc # "done"} |-> CopiesIn(t, tasks)]

\* C26: no two operations that write the same storage key are in flight at
\* the same time: no trigger of the UI (toggle, slider, app-start reconcile
\* among them) starts a read-modify-write on a key while another one on that
\* key has not finished.
C26_WritersSerialized == BagCardinality(InFlight) <= 1

----------------------------------------------------------------------------
(* Overlapping upserts *)

\* The call whose setItem took effect last
LastWriters ==
    {i \in DOMAIN tasks :
        tasks[i].kind = "upsert" /\ tasks[i].pc = "done" /\ tasks[i].last}

\* C27: when two upsertTodayCheckin calls for different dateKeys overlap so
\* that both read the collection before either writes, the last write wins
\* for the whole collection: what is stored in the end is exactly the later
\* writer's collection (what it read, with its own record put in), and the
\* earlier writer's record is not in it: under the earlier writer's dateKey
\* the collection holds what the later writer had read.
C27_LastWriteWins ==
    \A i \in LastWriters :
        LET t == tasks[i]
            key == t.ret[1].dateKey
        IN  /\ Stored = t.value
            /\ WithKey(Loaded, key) = <<t.ret[1]>>
            /\ WithoutKey(Loaded, key) = WithoutKey(t.all, key)
            /\ \A r \in t.lost :
                  r.dateKey # key =>
                      /\ WithKey(Loaded, r.dateKey) = WithKey(t.all, r.dateKey)
                      /\ WithKey(t.all, r.dateKey) # <<r>> =>
                            \A k \in 1..Len(Loaded) : Loaded[k] # r

\* Two calls for different dateKeys read the empty collection, both wrote:
\* the stored collection is the later writer's one record
C27_Witness ==
    \E i \in LastWriters :
        /\ tasks[i].all = <<>>
        /\ \E r \in tasks[i].lost : r.dateKey # tasks[i].ret[1].dateKey
        /\ Loaded = <<tasks[i].ret[1]>>
        /\ \A j \in DOMAIN tasks : tasks[j].pc = "done"

----------------------------------------------------------------------------
(* reconcileReminderSchedule, case by case *)

\* C28: when settings.enabled is false, or it is true and notification
\* permission is not granted at the time, reconcileReminderSchedule returns
\* the settings it was given, does not prompt for permission, and schedules
\* and cancels nothing: the platform's schedules are what they were.
C28_ReconcileFrame ==
    (/\ rem.op = "reconcile"
     /\ \/ ~rem.arg.enabled
        \/ (rem.permission # "granted" /\ ~rem.fail.permission)) =>
        /\ ~rem.threw
        /\ rem.ret = rem.arg
        /\ scheduled = rem.scheduled
        /\ permission = rem.permission

\* Enabled settings with a stale id, permission denied, duplicates on the
\* platform: everything is left as it was
C28_Witness ==
    /\ rem.op = "reconcile"
    /\ rem.arg.enabled
    /\ rem.arg.notificationId = <<MaxIds + 4>>
    /\ rem.permission = "denied"
    /\ Matching(rem.scheduled) = 2
    /\ scheduled = rem.scheduled
    /\ rem.ret = rem.arg

\* C29: with reminders enabled, permission granted and exactly one matching
\* schedule on the platform, reconcileReminderSchedule schedules and cancels
\* nothing and returns the settings it was given with at most the
\* notificationId changed: the id of the existing schedule replaces a
\* different one, and the settings come back unchanged when it is the same.
C29_SingleMatch ==
    (/\ rem.op = "reconcile"
     /\ rem.arg.enabled
     /\ rem.permission = "granted"
     /\ ~rem.fail.permission
     /\ ~rem.fail.list
     /\ Matching(rem.scheduled) = 1) =>
        LET only == CHOOSE req \in Reminders(rem.scheduled) : TRUE
        IN  /\ ~rem.threw
            /\ scheduled = rem.scheduled
            /\ rem.ret = [rem.arg EXCEPT !.notificationId = <<only.identifier>>]
            /\ rem.arg.notificationId = <<only.identifier>> => rem.ret = rem.arg

\* A stale id, one legacy schedule and a foreign one: the id is corrected and
\* the platform is untouched
C29_Witness ==
    /\ rem.op = "reconcile"
    /\ rem.arg.enabled
    /\ rem.arg.notificationId = <<MaxIds + 4>>
    /\ rem.permission = "granted"
    /\ rem.fail = NoFailure
    /\ Matching(rem.scheduled) = 1
    /\ Cardinality(rem.scheduled) = 2
    /\ rem.ret.notificationId = <<MaxIds + 2>>
    /\ scheduled = rem.scheduled

\* The same with the id already right: the settings come back as given
C29_WitnessSame ==
    /\ rem.op = "reconcile"
    /\ rem.arg.enabled
    /\ rem.arg.notificationId = <<MaxIds + 1>>
    /\ rem.permission = "granted"
    /\ Matching(rem.scheduled) = 1
    /\ ~rem.threw
    /\ rem.ret = rem.arg
    /\ scheduled = rem.scheduled

----------------------------------------------------------------------------
(* scheduleDailyReminder *)

\* C30: every scheduleDailyReminder call that succeeds adds exactly one new
\* schedule, tagged with kind 'checkin:daily-reminder-v1' (so cancelAllReminders
\* and reconcileReminderSchedule match it) and set to the truncated and
\* clamped hour in 0..23 and minute in 0..59, and neither looks at nor removes
\* a schedule that exists: the number of matching schedules grows by one
\* whatever it was.
C30_ScheduleAddsOne ==
    (rem.op = "schedule" /\ ~rem.threw) =>
        /\ rem.scheduled \subseteq scheduled
        /\ Cardinality(scheduled \ rem.scheduled) = 1
        /\ Matching(scheduled) = Matching(rem.scheduled) + 1
        /\ \A req \in scheduled \ rem.scheduled :
              /\ req.identifier = rem.ret[1]
              /\ req.identifier \notin Identifiers(rem.scheduled)
              /\ req.kind = "checkin:daily-reminder-v1"
              /\ isReminderRequest(req)
              /\ req.hour \in 0..23
              /\ req.minute \in 0..59
              /\ TruncatedAndClamped(rem.arg.hour, req.hour, 23)
              /\ TruncatedAndClamped(rem.arg.minute, req.minute, 59)

\* Two matching schedules exist and a third is added, for 21 + (Scale-1)/Scale
\* hours and 30 + 1/Scale minutes: it is set to 21:30
C30_Witness ==
    /\ rem.op = "schedule"
    /\ ~rem.threw
    /\ Matching(rem.scheduled) = 2
    /\ Matching(scheduled) = 3
    /\ rem.arg.hour = Whole(21) + Scale - 1
    /\ \E req \in scheduled \ rem.scheduled : req.hour = 21 /\ req.minute = 30

\* C31: after reconcileReminderSchedule(settings) returns with enabled true
\* and permission granted, the one matching schedule on the platform is set
\* to the settings' time: its hour and minute are settings.hour and
\* settings.minute, whatever was on the platform before (a single matching
\* schedule set to another time included).
C31_ScheduleMatchesSettings ==
    (/\ rem.op = "reconcile"
     /\ rem.arg.enabled
     /\ rem.permission = "granted"
     /\ rem.fail = NoFailure
     /\ ~rem.threw) =>
        /\ Matching(scheduled) = 1
        /\ \A req \in Reminders(scheduled) :
              req.hour = rem.ret.hour /\ req.minute = rem.ret.minute

----------------------------------------------------------------------------
(* The reconcile effect of RootLayout *)

\* The step in which the app-start reconcile returns, having found enabled
\* settings and permission granted
ReconcileReturns ==
    /\ \E t \in BagToSet(tasks) :
          t.kind = "reconcile" /\ t.pc \in {"list", "schedule", "save"}
    /\ \A u \in BagToSet(tasks') : u.kind = "reconcile" => u.pc = "done"

\* The step in which it returns because the stored settings are disabled
ReconcileSkips ==
    /\ \E t \in BagToSet(tasks) : t.kind = "reconcile" /\ t.pc = "load"
    /\ \A u \in BagToSet(tasks') : u.kind = "reconcile" => u.pc = "done"

\* C32: when the app-start reconcile has run to completion with enabled
\* settings stored and permission granted, the stored notificationId is the
\* identifier of the one matching schedule on the platform; it writes the
\* settings only when the notificationId changed; and with disabled settings
\* stored it calls nothing on the platform and writes nothing.
C32_StartReconcileSyncs ==
    [][/\ ReconcileReturns =>
             /\ Matching(scheduled') = 1
             /\ storage'[REMINDER_KEY].kind = "object"
             /\ storage'[REMINDER_KEY].json[1].notificationId \in
                    {<<req.identifier>> : req \in Reminders(scheduled')}
             /\ storage' # storage =>
                    \E t \in BagToSet(tasks) :
                        /\ t.kind = "reconcile"
                        /\ t.next.notificationId # t.arg.notificationId
       /\ ReconcileSkips => UNCHANGED <<storage, scheduled>>]_vars

----------------------------------------------------------------------------
(* Purge next to upsert *)

Upserts == {i \in DOMAIN tasks : tasks[i].kind = "upsert"}
Purges == {i \in DOMAIN tasks : tasks[i].kind = "purge"}
AllReturned == \A i \in DOMAIN tasks : tasks[i].pc = "done"

\* The record of upsert u is dated inside the window of purge p
InsideWindow(u, p) ==
    keptByPurge(tasks[u].ret[1], purgeCutoff(tasks[p].days, tasks[p].clock))

\* C33: a record written by upsertTodayCheckin for a date inside the
\* retention window is never removed by purgeCheckinsOlderThan, also when the
\* purge and the upsert interleave at their storage awaits: once both have
\* returned, loadCheckinForDate for the upserted dateKey returns the upserted
\* values.
C33_PurgeKeepsUpsert ==
    \A u \in Upserts :
        (/\ AllReturned
         /\ Upserts = {u}
         /\ Purges # {}
         /\ \A p \in Purges : InsideWindow(u, p)) =>
            LET found == loadCheckinForDate(Stored, tasks[u].ret[1].dateKey)
            IN  /\ found # <<>>
                /\ SameValues(found[1], tasks[u].values)

----------------------------------------------------------------------------
(* Cleanup of an effect while its load is awaiting                          *)

\* The awaits at which a started storage write is still to take effect
WriteStarted == {"purgeWrite", "save"}

\* A load cleaned up while it was awaiting
CancelledLoads == {i \in DOMAIN tasks : tasks[i].cancelled}

\* C34, the update: a load that was cancelled while awaiting never sets the
\* screen's state, and a cancelled app-start reconcile writes the settings
\* only when its write had already been started
CancelledNeverApplies ==
    \A i \in CancelledLoads :
        /\ ~tasks[i].applied
        /\ (tasks[i].kind = "reconcile" /\ tasks[i].cancelledAt \notin WriteStarted)
               => ~tasks[i].wrote /\ tasks[i].pc # "save"

\* A cancelled load whose storage write is started and has not taken effect
WritePending(i) ==
    IF i \in CancelledLoads THEN tasks[i].pc \in WriteStarted ELSE FALSE

\* A load that ended with its write done and without an update
WroteWithoutUpdate(i) ==
    IF i \in DOMAIN tasks
    THEN tasks[i].wrote /\ tasks[i].pc = "done" /\ ~tasks[i].applied
    ELSE FALSE

\* C34, the storage call: a write that was already started when the load was
\* cancelled still takes effect, and the load then ends without an update
StartedWriteCompletes ==
    \A i \in 1..MaxFlows : WritePending(i) ~> WroteWithoutUpdate(i)

\* C34: once a screen-level load or the app-start reconcile is cancelled while
\* it is awaiting, it never applies its update (the screen's state, or the
\* settings write of the reconcile after scheduling), while a storage write it
\* had already started still runs to completion
C34_CancelSuppressesUpdateOnly == []CancelledNeverApplies /\ StartedWriteCompletes

\* A Home load cancelled during the purge write: the old record is gone from
\* the store and the count on the screen was never set
C34_Witness ==
    \E i \in CancelledLoads :
        /\ tasks[i].kind \in {"loadInitial", "refreshCount"}
        /\ tasks[i].cancelledAt = "purgeWrite"
        /\ tasks[i].pc = "done"
        /\ tasks[i].wrote
        /\ Len(loadAllCheckins(storage[CHECKIN_KEY])) = 1
        /\ savedCount = 0

\* An app-start reconcile cancelled while scheduling: the platform has the new
\* schedule and the stored settings still carry the old identifier
C34_WitnessReconcile ==
    \E i \in CancelledLoads :
        /\ tasks[i].kind = "reconcile"
        /\ tasks[i].cancelledAt = "reconcile"
        /\ tasks[i].pc = "done"
        /\ \E req \in Reminders(scheduled) :
              <<req.identifier>> # loadReminderSettings(storage[REMINDER_KEY]).notificationId

====
